---- MODULE Spec2Model ----
(***************************************************************************)
(* A model of the task execution engine of mk: CliEntry::run_task, the     *)
(* recursion Task::run -> TaskDependency / TaskRun -> Task::run guarded by *)
(* the shared ExecutionStack, preconditions, sequential commands and the   *)
(* parallel worker / channel path of TaskArgs::execute_commands_parallel.  *)
(*                                                                         *)
(* An Option<T> of the source is a sequence: <<>> is None, <<v>> is        *)
(* Some(v).  The call stack of the recursion is the sequence `frames`;     *)
(* each frame holds the TaskContext its Task::run was handed.  External    *)
(* processes are inputs: their exit status is chosen when they are waited  *)
(* for.  `log` records, in order, every task begin / return and every      *)
(* process spawn / exit of the invocation.  `draw_target` is the draw      *)
(* target of the MultiProgress every context shares.  `mutex` and          *)
(* `threads` belong to SpecEnter, which runs the lock-scoped entry of a    *)
(* name into the ExecutionStack from several threads at once.              *)
(***************************************************************************)
EXTENDS Integers, Sequences, FiniteSets, TLC

VARIABLES catalog, execution_stack, cli, frames, par, log, draw_target, mutex,
          threads, path, shell_def, proc, task_context, child

vars == <<catalog, execution_stack, cli, frames, par, log, draw_target, mutex,
          threads, path, shell_def, proc, task_context, child>>

\* what the task engine leaves alone: the Shell, the TaskContext and the
\* child process with its pipes that SpecShell, SpecContext and SpecPipe
\* exercise on their own
objects == <<shell_def, proc, task_context, child>>

(***************************************************************************)
(* Bounds of the model.                                                    *)
(***************************************************************************)
\* exit statuses of a process range over 0..MaxExit
MaxExit == 1
\* number of preconditions of the tasks that have preconditions
NumPre == 2
\* number of commands of the parallel task
NumPar == 2
\* number of threads that enter names into the ExecutionStack in SpecEnter
NumThreads == 2
\* length of the longest declared args list of a Shell in SpecShell
MaxArgs == 3
\* number of commands of the wide parallel task in SpecSort
NumWide == 10
\* number of commands of the wide parallel task that fail
MaxFail == 2
\* number of lines a child process writes to each of its output streams
MaxOut == 2
\* number of lines a pipe holds before a write to it blocks
PipeCap == 1
\* number of nested dependency / TaskRun calls the threads of SpecLock make
MaxNest == 2

ExitCodes == 0..MaxExit

\* no child process is being followed
NoChild == <<>>

(***************************************************************************)
(* Option<T>                                                               *)
(***************************************************************************)
None == <<>>

Some(v) == <<v>>

OptBool == {None, Some(TRUE), Some(FALSE)}

\* Option::or
OptOr(a, b) == IF a # None THEN a ELSE b

\* Option::unwrap_or
UnwrapOr(a, d) == IF a # None THEN a[1] ELSE d

(***************************************************************************)
(* defaults.rs                                                             *)
(***************************************************************************)
default_ignore_errors == FALSE

default_verbose == TRUE

\* Shell::String(command)
ShellString(command) == [form |-> "String", command |-> command, args |-> None]

\* Shell::Shell(ShellArgs { command, args })
ShellWith(command, args) == [form |-> "Shell", command |-> command, args |-> args]

default_shell == ShellString("sh")

\* ShellArgs::shell_args: the shells that take the command after `-c`
posix_shell == {"sh", "bash", "zsh", "fish"}

\* ShellArgs::shell_args
shell_args(shell_args_in) ==
  LET args == UnwrapOr(shell_args_in.args, <<>>)
  IN IF shell_args_in.command \notin posix_shell THEN args
     ELSE IF \E k \in DOMAIN args : args[k] = "-c" THEN args
     ELSE Append(args, "-c")

\* Shell::cmd
ShellCmd(shell_in) == shell_in.command

\* Shell::args: a Shell::String is a ShellArgs without args
ShellArgsOf(shell_in) ==
  IF shell_in.form = "String"
  THEN shell_args([command |-> shell_in.command, args |-> None])
  ELSE shell_args([command |-> shell_in.command, args |-> shell_in.args])

\* Shell::proc: the program and the arguments of the ProcessCommand
ShellProc(shell_in) == [program |-> ShellCmd(shell_in), args |-> ShellArgsOf(shell_in)]

(***************************************************************************)
(* Strings the engine takes apart (environment values, lines of an env     *)
(* file) are sequences of one-character strings.                           *)
(***************************************************************************)
\* str::trim
Trim(s) ==
  LET solid == {j \in DOMAIN s : s[j] # " "}
  IN IF solid = {} THEN <<>>
     ELSE SubSeq(s, CHOOSE j \in solid : \A i \in solid : j <= i,
                    CHOOSE j \in solid : \A i \in solid : i <= j)

\* str::split_once('='): the place of the first '=' (0: none)
SplitAt(line) ==
  LET eq == {j \in DOMAIN line : line[j] = "="}
  IN IF eq = {} THEN 0 ELSE CHOOSE j \in eq : \A i \in eq : j <= i

\* one entry of TaskArgs.environment
EnvVar(key, value) == [key |-> key, value |-> value]

\* an env file on disk: its lines, or a file that cannot be read
EnvFile(lines) == [readable |-> TRUE, lines |-> lines]

Unreadable == [readable |-> FALSE, lines |-> <<>>]

\* a value of the form $(...)
ShellValue == <<"$", "(", "c", ")">>

\* the first line a command substitution prints
Stdout == <<"o">>

(***************************************************************************)
(* CommandRunner variants.  Every command is a record with the same        *)
(* fields; a field a variant does not declare is None / "".                *)
(***************************************************************************)
LocalRun(ie, interactive, test) ==
  [kind |-> "LocalRun", task |-> "", ignore_errors |-> ie, verbose |-> None,
   interactive |-> interactive, test |-> test]

\* a LocalRun that declares ignore_errors and verbose
LocalRunWith(ie, verbose) == [LocalRun(ie, None, None) EXCEPT !.verbose = verbose]

TaskRun(name, ie) ==
  [kind |-> "TaskRun", task |-> name, ignore_errors |-> ie, verbose |-> None,
   interactive |-> None, test |-> None]

\* a TaskRun that declares ignore_errors and verbose
TaskRunWith(name, ie, verbose) == [TaskRun(name, ie) EXCEPT !.verbose = verbose]

\* ContainerRun.ignore_errors is a plain bool with serde default false,
\* ContainerRun.verbose a plain bool with serde default true
ContainerRun(ie) ==
  [kind |-> "ContainerRun", task |-> "", ignore_errors |-> Some(ie),
   verbose |-> Some(TRUE), interactive |-> None, test |-> None]

\* ContainerBuild has a verbose option and no ignore_errors field; `tags` are
\* the declared tags (at most one in these catalogs)
ContainerBuild ==
  [kind |-> "ContainerBuild", task |-> "", ignore_errors |-> None, verbose |-> None,
   interactive |-> None, test |-> None, tags |-> <<>>]

\* a ContainerBuild with a tag that is a shell substitution
ContainerBuildTagged == [ContainerBuild EXCEPT !.tags = <<ShellValue>>]

\* a raw command string: nothing can be declared on it
CommandRun ==
  [kind |-> "CommandRun", task |-> "", ignore_errors |-> None, verbose |-> None,
   interactive |-> None, test |-> None]

\* a plain LocalRun: `command: ...` with nothing else declared
Plain == LocalRun(None, None, None)

Precondition == [command |-> "pre"]

\* TaskArgs
TaskArgs(deps, npre, cmds, env, parallel, ie, verbose) ==
  [depends_on |-> deps,
   preconditions |-> [k \in 1..npre |-> Precondition],
   commands |-> cmds,
   environment |-> env,
   env_file |-> <<>>,
   shell |-> None,
   parallel |-> parallel,
   ignore_errors |-> ie,
   verbose |-> verbose]

\* a task that also declares env files and a shell
TaskEnv(deps, cmds, env, files, shell) ==
  [TaskArgs(deps, 1, cmds, env, None, None, None) EXCEPT
     !.env_file = files, !.shell = shell]

\* Task::String(command): sugar for one raw command
TaskString == TaskArgs(<<>>, 0, <<CommandRun>>, <<>>, None, None, None)

Simple(ie) == TaskArgs(<<>>, 0, <<Plain>>, <<>>, None, ie, None)

(***************************************************************************)
(* Task catalogs (TaskRoot.tasks).  Each family is a task graph shape,     *)
(* instantiated with every combination of the ignore_errors overrides it   *)
(* takes as parameters.  "X" is a name no catalog defines.                 *)
(***************************************************************************)
\* A runs B as a command; B has preconditions and two local commands
CatNested(aIe, rIe, bIe, cIe) ==
  "A" :> TaskArgs(<<>>, 0, <<TaskRun("B", rIe), Plain>>, <<>>, None, aIe, None) @@
  "B" :> TaskArgs(<<>>, NumPre,
                  <<LocalRun(cIe, None, None), LocalRun(None, None, Some("test"))>>,
                  <<>>, None, bIe, None)

\* A depends on B and C, then preconditions, then commands
CatDeps(aIe, bIe, cIe) ==
  "A" :> TaskArgs(<<"B", "C">>, NumPre, <<LocalRun(cIe, None, None), CommandRun>>,
                  <<>>, None, aIe, None) @@
  "B" :> Simple(bIe) @@
  "C" :> TaskString

\* A depends on B, B depends on A
CatCycleDeps(aIe, bIe) ==
  "A" :> TaskArgs(<<"B">>, 0, <<Plain>>, <<>>, None, aIe, None) @@
  "B" :> TaskArgs(<<"A">>, 1, <<Plain>>, <<>>, None, bIe, None)

\* A runs B which runs A; C runs itself; D -> E -> F -> D mixes both edges
CatCycleRun(aIe, rIe) ==
  "A" :> TaskArgs(<<>>, 0, <<Plain, TaskRun("B", rIe)>>, <<>>, None, aIe, None) @@
  "B" :> TaskArgs(<<>>, 0, <<TaskRun("A", None)>>, <<>>, None, None, None) @@
  "C" :> TaskArgs(<<>>, 0, <<TaskRun("C", rIe)>>, <<>>, None, aIe, None) @@
  "D" :> TaskArgs(<<"E">>, 0, <<Plain>>, <<>>, None, aIe, None) @@
  "E" :> TaskArgs(<<>>, 0, <<TaskRun("F", rIe), Plain>>, <<>>, None, None, None) @@
  "F" :> TaskArgs(<<"D">>, 0, <<Plain>>, <<>>, None, None, None)

\* the diamond A -> B -> D, A -> C -> D; E runs D twice as a command
CatDiamond(aIe, rIe) ==
  "A" :> TaskArgs(<<"B", "C">>, 0, <<Plain>>, <<>>, None, aIe, None) @@
  "B" :> TaskArgs(<<"D">>, 0, <<Plain>>, <<>>, None, None, None) @@
  "C" :> TaskArgs(<<"D">>, 0, <<Plain>>, <<>>, None, None, None) @@
  "D" :> Simple(None) @@
  "E" :> TaskArgs(<<>>, 0, <<TaskRun("D", rIe), TaskRun("D", rIe)>>, <<>>, None, aIe, None)

\* P is a parallel task of NumPar local commands; A reaches it as a dependency
ParCommands(cIe) ==
  [k \in 1..NumPar |->
     IF k = 1 THEN LocalRun(cIe, None, None)
     ELSE IF k = 2 THEN LocalRun(None, Some(FALSE), Some("test"))
     ELSE Plain]

CatParallel(aIe, pIe, cIe) ==
  "A" :> TaskArgs(<<"P">>, 0, <<Plain>>, <<>>, None, aIe, None) @@
  "P" :> TaskArgs(<<>>, 1, ParCommands(cIe), <<>>, Some(TRUE), pIe, None)

\* the commands task-level parallel validation has to tell apart
OtherCommands ==
  {LocalRun(None, Some(TRUE), None), ContainerRun(FALSE), ContainerRun(TRUE),
   ContainerBuild, TaskRun("Q", None), CommandRun}

\* V has every phase and one command that is not a plain local command; W
\* runs V after a precondition of its own
CatMixed(parallel, other, vIe) ==
  "V" :> TaskArgs(<<"Q">>, 1, <<Plain, other>>, <<EnvVar(<<"H">>, ShellValue)>>, parallel, vIe, None) @@
  "Q" :> Simple(None) @@
  "W" :> TaskArgs(<<>>, 1, <<TaskRun("V", Some(TRUE))>>, <<>>, None, None, None)

\* T has a command with a test and its own ignore_errors, then a plain one
CatGate(tIe, cIe) ==
  "T" :> TaskArgs(<<>>, 0, <<LocalRun(cIe, None, Some("test")), Plain>>, <<>>,
                  None, tIe, None)

\* env files: a later line and a later file redefine a key, a value is
\* trimmed and may hold a '=', a line without '=' defines nothing
EnvFileOne ==
  EnvFile(<<<<"F", "=", "z">>, <<" ", "G", " ", "=", " ", "y", " ">>, <<"#">>,
            <<"F", "=", "x">>>>)

EnvFileTwo == EnvFile(<<<<"F", "=", "w">>, <<"K", "=", "a", "=", "b">>>>)

EnvFileLists ==
  {<<>>, <<EnvFileOne>>, <<EnvFileOne, EnvFileTwo>>, <<EnvFileTwo, EnvFileOne>>,
   <<EnvFileTwo>>, <<EnvFileOne, Unreadable>>}

\* A declares an environment and a shell, depends on B and runs C; B and C
\* declare their own environment, env files and shell
CatEnv(files) ==
  "A" :> TaskEnv(<<"B">>, <<TaskRun("C", None), Plain>>,
                 <<EnvVar(<<"F">>, <<"a">>), EnvVar(<<"G">>, <<"g">>)>>, <<>>,
                 Some("bash")) @@
  "B" :> TaskEnv(<<>>, <<Plain>>, <<EnvVar(<<"F">>, <<"b">>)>>, files, None) @@
  "C" :> TaskEnv(<<>>, <<Plain>>,
                 <<EnvVar(<<"H">>, ShellValue), EnvVar(<<"K">>, <<"c">>)>>, files,
                 Some("zsh"))

\* A depends on B, which has every phase but an empty command list
CatEmpty(aIe, bIe) ==
  "A" :> TaskArgs(<<"B">>, 0, <<Plain>>, <<>>, None, aIe, None) @@
  "B" :> [TaskArgs(<<"C">>, 1, <<>>, <<EnvVar(<<"H">>, ShellValue)>>, None, bIe, None)
            EXCEPT !.shell = Some("bash")] @@
  "C" :> Simple(None)

\* references to a task the catalog does not define
CatMissing(aIe, rIe) ==
  "A" :> TaskArgs(<<"X">>, 1, <<Plain>>, <<>>, None, aIe, None) @@
  "B" :> TaskArgs(<<>>, 1, <<TaskRun("X", rIe), Plain>>, <<>>, None, aIe, None)

\* the verbose a level declares next to its ignore_errors: the opposite value,
\* so that no level's two overrides can be taken for one another
Flip(o) == IF o = None THEN None ELSE Some(~o[1])

\* A runs B through a TaskRun; A, the TaskRun, B and B's first command each
\* declare ignore_errors and verbose, or neither
CatTaskRun(aO, rO, bO, cO) ==
  "A" :> TaskArgs(<<>>, 0, <<TaskRunWith("B", rO, Flip(rO))>>, <<>>, None, aO, Flip(aO)) @@
  "B" :> TaskArgs(<<>>, 0, <<LocalRunWith(cO, Flip(cO)), CommandRun, ContainerBuild>>,
                  <<>>, None, bO, Flip(bO))

\* A runs B through a TaskRun that may declare verbose; B declares verbose
\* and an environment value that is a shell substitution
CatSubst(rVerbose, bVerbose) ==
  "A" :> TaskArgs(<<>>, 0, <<TaskRunWith("B", None, rVerbose)>>, <<>>, None, None, None) @@
  "B" :> TaskArgs(<<>>, 0, <<Plain>>, <<EnvVar(<<"H">>, ShellValue)>>, None, None, bVerbose)

\* T runs a container command, then a plain one
CatContainer(command, tVerbose) ==
  "T" :> TaskArgs(<<>>, 0, <<command, Plain>>, <<>>, None, None, tVerbose)

\* T runs an interactive command, then a plain one
CatInteractive(tIe) ==
  "T" :> TaskArgs(<<>>, 0, <<LocalRun(None, Some(TRUE), None), Plain>>, <<>>, None, tIe, None)

Catalogs ==
  {CatNested(a, r, b, c) : a \in OptBool, r \in OptBool, b \in OptBool, c \in OptBool}
  \cup {CatDeps(a, b, c) : a \in OptBool, b \in OptBool, c \in OptBool}
  \cup {CatCycleDeps(a, b) : a \in OptBool, b \in OptBool}
  \cup {CatCycleRun(a, r) : a \in OptBool, r \in OptBool}
  \cup {CatDiamond(a, r) : a \in OptBool, r \in OptBool}
  \cup {CatParallel(a, p, c) : a \in OptBool, p \in OptBool, c \in OptBool}
  \cup {CatMixed(p, o, v) : p \in OptBool, o \in OtherCommands, v \in OptBool}
  \cup {CatMissing(a, r) : a \in OptBool, r \in OptBool}
  \cup {CatEmpty(a, b) : a \in OptBool, b \in OptBool}
  \cup {CatGate(t, c) : t \in OptBool, c \in OptBool}
  \cup {CatEnv(files) : files \in EnvFileLists}
  \cup {CatInteractive(t) : t \in OptBool}
  \cup {CatSubst(r, b) : r \in OptBool, b \in OptBool}
  \cup {CatContainer(c, v) : c \in {ContainerRun(FALSE), ContainerBuildTagged},
                             v \in OptBool}
  \cup {CatTaskRun(a, r, b, c) : a \in OptBool, r \in OptBool, b \in OptBool, c \in OptBool}

\* the names a caller may ask for: the keys of the catalog, and one that is absent
Names == {"A", "B", "C", "D", "E", "F", "P", "Q", "T", "V", "W", "X"}

(***************************************************************************)
(* TaskContext (the fields the engine's control flow reads)                *)
(***************************************************************************)
\* TaskContext::new
NewContext ==
  [env_vars |-> <<>>, shell |-> None, ignore_errors |-> None, verbose |-> None,
   is_nested |-> FALSE]

\* mutant: the nested context does not inherit ignore_errors
FromContextFresh(context) ==
  [env_vars |-> context.env_vars, shell |-> context.shell,
   ignore_errors |-> None, verbose |-> context.verbose, is_nested |-> TRUE]

\* TaskContext::from_context
FromContext(context) ==
  [env_vars |-> context.env_vars, shell |-> context.shell,
   ignore_errors |-> context.ignore_errors, verbose |-> context.verbose,
   is_nested |-> TRUE]

\* TaskContext::from_context_with_args
FromContextWithArgs(context, ignore_errors, verbose) ==
  [env_vars |-> context.env_vars, shell |-> context.shell,
   ignore_errors |-> Some(ignore_errors), verbose |-> Some(verbose),
   is_nested |-> TRUE]

\* TaskContext::shell
ContextShell(context) == UnwrapOr(context.shell, default_shell)

\* TaskContext::set_shell (Shell::from_shell copies the shell)
set_shell(context, shell) == [context EXCEPT !.shell = Some(shell)]

\* mutant: set_ignore_errors also sets verbose
SetIgnoreErrorsAndVerbose(context, ignore_errors) ==
  [context EXCEPT !.ignore_errors = Some(ignore_errors), !.verbose = Some(ignore_errors)]

\* TaskContext::set_ignore_errors
set_ignore_errors(context, ignore_errors) ==
  [context EXCEPT !.ignore_errors = Some(ignore_errors)]

\* TaskContext::set_verbose
set_verbose(context, verbose) == [context EXCEPT !.verbose = Some(verbose)]

\* TaskContext::ignore_errors
ContextIgnoreErrors(context) == UnwrapOr(context.ignore_errors, default_ignore_errors)

\* TaskContext::verbose
ContextVerbose(context) == UnwrapOr(context.verbose, default_verbose)

\* TaskArgs::run, the overrides the task applies to the context it was handed
ApplyOverrides(task, context) ==
  [context EXCEPT
     !.shell = IF task.shell # None THEN task.shell ELSE @,
     !.ignore_errors = IF task.ignore_errors # None THEN task.ignore_errors ELSE @,
     !.verbose = IF task.verbose # None THEN task.verbose ELSE @]

(***************************************************************************)
(* Results.  Ok, or an error: its kind and the task or command it names.   *)
(***************************************************************************)
Ok == [kind |-> "Ok", name |-> "", failed |-> <<>>]

Err(kind, name) == [kind |-> kind, name |-> name, failed |-> <<>>]

\* a panic is no value of anyhow::Result; it is written as a record only so
\* that it can be compared with one
Panic == [kind |-> "panic", name |-> "", failed |-> <<>>]

\* "Failed commands:\n..." with the messages of the failed commands
FailedCommands(failed) == [kind |-> "FailedCommands", name |-> "", failed |-> failed]

(***************************************************************************)
(* LocalRun, TaskRun, CommandRun: the effective ignore_errors              *)
(***************************************************************************)
\* LocalRun::ignore_errors
LocalRunIgnoreErrors(command, context) ==
  UnwrapOr(OptOr(command.ignore_errors, context.ignore_errors), default_ignore_errors)

\* TaskRun::ignore_errors
TaskRunIgnoreErrors(command, context) ==
  UnwrapOr(OptOr(command.ignore_errors, context.ignore_errors), default_ignore_errors)

\* TaskRun::verbose
TaskRunVerbose(command, context) ==
  UnwrapOr(OptOr(command.verbose, context.verbose), default_verbose)

\* LocalRun::verbose
LocalRunVerbose(command, context) ==
  UnwrapOr(OptOr(command.verbose, context.verbose), default_verbose)

\* LocalRun::interactive
Interactive(command) == UnwrapOr(command.interactive, FALSE)

\* LocalRun::is_parallel_safe
\* mutant: every local command counts as parallel safe
ParallelSafeAlways(command) == TRUE

IsParallelSafe(command) == ~Interactive(command)

\* whether the command shows the output of its process (LocalRun::execute,
\* CommandRunner::execute_command, ContainerRun::execute, ContainerBuild::execute)
Verbose(command, context) ==
  CASE command.kind = "LocalRun" -> Interactive(command) \/ LocalRunVerbose(command, context)
    [] command.kind = "CommandRun" -> ContextVerbose(context)
    [] command.kind = "ContainerRun" -> UnwrapOr(command.verbose, default_verbose)
    [] OTHER -> UnwrapOr(OptOr(command.verbose, context.verbose), default_verbose)

\* whether a non-zero exit of the command's process fails the command
\* (LocalRun::execute, CommandRunner::execute_command, ContainerRun::execute,
\*  ContainerBuild::execute)
Suppressed(command, context) ==
  CASE command.kind = "LocalRun" -> LocalRunIgnoreErrors(command, context)
    [] command.kind = "CommandRun" -> ContextIgnoreErrors(context)
    [] command.kind = "ContainerRun" -> UnwrapOr(command.ignore_errors, FALSE)
    [] OTHER -> FALSE

\* the error a failed process of the command gives
CommandError(command, task) ==
  IF command.kind = "ContainerBuild" THEN Err("ContainerBuildFailed", task)
  ELSE Err("CommandFailed", task)

(***************************************************************************)
(* TaskArgs::validate_parallel_commands                                    *)
(***************************************************************************)
Parallel(task) == UnwrapOr(task.parallel, FALSE)

\* the first command, in list order, that is not a parallel-safe LocalRun (0: none)
FirstUnsafe(task) ==
  LET bad == {k \in DOMAIN task.commands :
                ~(task.commands[k].kind = "LocalRun" /\ IsParallelSafe(task.commands[k]))}
  IN IF bad = {} THEN 0 ELSE CHOOSE k \in bad : \A j \in bad : k <= j

\* mutant: only the kind of a command is validated, not is_parallel_safe
ValidateKindsOnly(task, name) ==
  IF ~Parallel(task) THEN Ok
  ELSE IF \A k \in DOMAIN task.commands : task.commands[k].kind = "LocalRun" THEN Ok
  ELSE Err("ParallelUnsupported", name)

validate_parallel_commands(task, name) ==
  IF ~Parallel(task) THEN Ok
  ELSE IF FirstUnsafe(task) = 0 THEN Ok
  ELSE IF task.commands[FirstUnsafe(task)].kind = "LocalRun"
       THEN Err("InteractiveInParallel", name)
       ELSE Err("ParallelUnsupported", name)

\* is_shell_command: the value has the form $(...)
is_shell_command(value) ==
  /\ Len(value) >= 4
  /\ value[1] = "$" /\ value[2] = "(" /\ value[Len(value)] = ")"

(***************************************************************************)
(* The log: what the invocation did, in order                              *)
(***************************************************************************)
\* Task::run was entered for `task`, called by item idx of phase "deps" or "cmd"
\* of task `by` ("top": by run_task)
Begin(task, by, phase, idx) ==
  [ev |-> "begin", task |-> task, phase |-> phase, idx |-> idx, code |-> 0,
   kind |-> "", by |-> by]

\* that Task::run returned a result of this kind
Returned(task, by, phase, idx, kind) ==
  [ev |-> "return", task |-> task, phase |-> phase, idx |-> idx, code |-> 0,
   kind |-> kind, by |-> by]

\* a process was spawned for item idx of a phase ("env", "pre", "test", "cmd")
Spawn(task, phase, idx) ==
  [ev |-> "spawn", task |-> task, phase |-> phase, idx |-> idx, code |-> 0,
   kind |-> "", by |-> ""]

\* that process exited with this status, and the item's execute gave a result
\* of this kind ("Skipped": a LocalRun whose test exited non-zero)
Exit(task, phase, idx, code, kind) ==
  [ev |-> "exit", task |-> task, phase |-> phase, idx |-> idx, code |-> code,
   kind |-> kind, by |-> ""]

\* the phase of the caller a nested Task::run was called from
CallPhase(caller) == IF caller.pc = "deps" THEN "deps" ELSE "cmd"

(***************************************************************************)
(* Frames: the activations of Task::run, innermost last                    *)
(***************************************************************************)
NewFrame(task, context) ==
  [task |-> task, pc |-> "validate", i |-> 1, running |-> FALSE,
   context |-> context, res |-> Ok]

Top == frames[Len(frames)]

SetTop(f) == [frames EXCEPT ![Len(frames)] = f]

\* the phase TaskArgs::run executes commands in
CommandsPhase(task) == IF Parallel(task) THEN "par" ELSE "cmds"

\* TaskArgs::run skips a phase whose list is empty
AfterPre(task) == CommandsPhase(task)

AfterDeps(task) == IF task.preconditions # <<>> THEN "pre" ELSE AfterPre(task)

\* mutant: the dependencies are skipped
AfterEnvSkippingDeps(task) == AfterDeps(task)

AfterEnv(task) == IF task.depends_on # <<>> THEN "deps" ELSE AfterDeps(task)

AfterValidate(task) == IF task.environment # <<>> THEN "env" ELSE "envfile"

Goto(f, pc) == [f EXCEPT !.pc = pc, !.i = 1, !.running = FALSE]

\* Task::run returns r (an Err is what the `?` operator returns early)
Finish(f, r) == [f EXCEPT !.pc = "ret", !.res = r, !.running = FALSE]

PhaseLen(task, pc) ==
  CASE pc = "env" -> Len(task.environment)
    [] pc = "deps" -> Len(task.depends_on)
    [] pc = "pre" -> Len(task.preconditions)
    [] OTHER -> Len(task.commands)

\* item f.i of the phase succeeded: the next item, else the next phase
Advance(f, task) ==
  IF f.i < PhaseLen(task, f.pc) THEN [f EXCEPT !.i = f.i + 1, !.running = FALSE]
  ELSE CASE f.pc = "env" -> Goto(f, "envfile")
         [] f.pc = "deps" -> Goto(f, AfterDeps(task))
         [] f.pc = "pre" -> Goto(f, AfterPre(task))
         [] OTHER -> Finish(f, Ok)

\* the locals of execute_commands_parallel: thread handles, the state of each
\* worker thread, the channel, `completed` and `failures`
NoPar == [handles |-> 0, worker |-> <<>>, rx |-> <<>>, completed |-> 0, failures |-> <<>>]

\* the Mutex of the ExecutionStack: the thread that holds it (0: nobody)
Unlocked == 0

TypeOK ==
  /\ catalog \in Catalogs
  /\ execution_stack \subseteq Names
  /\ cli.pc \in {"idle", "running", "done", "panicked"}
  /\ \A k \in DOMAIN frames :
       /\ frames[k].task \in DOMAIN catalog
       /\ frames[k].pc \in {"validate", "env", "envfile", "deps", "pre", "cmds", "par",
                            "recv", "ret"}
  /\ par.completed \in 0..Len(par.worker)

\* the container runtimes that may be on the search path; a catalog without
\* container commands never looks for one
Runtimes == {"docker", "podman"}

SearchPaths(cat) ==
  IF \E t \in DOMAIN cat : \E c \in DOMAIN cat[t].commands :
       cat[t].commands[c].kind \in {"ContainerRun", "ContainerBuild"}
  THEN SUBSET Runtimes ELSE {{}}

Init ==
  /\ catalog \in Catalogs
  /\ execution_stack = {}
  /\ cli = [pc |-> "idle", task |-> "", result |-> Ok]
  /\ frames = <<>>
  /\ par = NoPar
  /\ log = <<>>
  /\ draw_target = "stderr"
  /\ mutex = Unlocked
  /\ threads = <<>>
  /\ path \in SearchPaths(catalog)
  /\ shell_def = default_shell
  /\ proc = None
  /\ task_context = NewContext
  /\ child = NoChild

(***************************************************************************)
(* CliEntry::run_task                                                      *)
(***************************************************************************)
\* run_task up to its call of Task::run
\* mutant: the name is entered into the ExecutionStack before it is looked up
RunTaskInsertingFirst(task_name) ==
  /\ cli.pc = "idle"
  /\ execution_stack' = execution_stack \cup {task_name}
  /\ IF task_name \notin DOMAIN catalog
     THEN /\ cli' = [pc |-> "done", task |-> task_name,
                     result |-> Err("TaskNotFound", task_name)]
          /\ UNCHANGED <<frames, log>>
     ELSE /\ cli' = [cli EXCEPT !.pc = "running", !.task = task_name]
          /\ frames' = <<NewFrame(task_name, NewContext)>>
          /\ log' = Append(log, Begin(task_name, "", "top", 0))
  /\ UNCHANGED <<objects, catalog, path, draw_target, mutex, threads, par>>

RunTask(task_name) ==
  /\ cli.pc = "idle"
  /\ IF task_name \notin DOMAIN catalog
     THEN /\ cli' = [pc |-> "done", task |-> task_name,
                     result |-> Err("TaskNotFound", task_name)]
          /\ UNCHANGED <<execution_stack, frames, log>>
     ELSE /\ cli' = [cli EXCEPT !.pc = "running", !.task = task_name]
          /\ execution_stack' = execution_stack \cup {task_name}
          /\ frames' = <<NewFrame(task_name, NewContext)>>
          /\ log' = Append(log, Begin(task_name, "", "top", 0))
  /\ UNCHANGED <<objects, catalog, path, draw_target, mutex, threads, par>>

\* the stack after run_task's call of Task::run gave r: `?` returns an error
\* before the clear
StackAfterRun(stack, r) == IF r.kind = "Ok" THEN {} ELSE stack

\* run_task from the return of Task::run
RunTaskEnd ==
  /\ cli.pc = "running"
  /\ Len(frames) = 1
  /\ Top.pc = "ret"
  /\ cli' = [cli EXCEPT !.pc = "done", !.result = Top.res]
  /\ execution_stack' = StackAfterRun(execution_stack, Top.res)
  /\ frames' = <<>>
  /\ log' = Append(log, Returned(Top.task, "", "top", 0, Top.res.kind))
  /\ UNCHANGED <<objects, catalog, path, draw_target, mutex, threads, par>>

(***************************************************************************)
(* TaskArgs::run                                                           *)
(***************************************************************************)
\* assert!(!self.commands.is_empty()): no result for a task without commands,
\* the assertion panics
assert_commands(task, name) ==
  IF task.commands = <<>> THEN Panic ELSE Ok

\* mutant: the first environment substitution is spawned before the parallel
\* configuration is validated
ValidateAfterEnv ==
  /\ frames # <<>>
  /\ Top.pc = "validate"
  /\ LET task == catalog[Top.task]
         a == assert_commands(task, Top.task)
         r == validate_parallel_commands(task, Top.task)
     IN IF a = Panic
        THEN /\ frames' = <<>>
             /\ cli' = [cli EXCEPT !.pc = "panicked"]
             /\ log' = log
        ELSE /\ frames' = SetTop(IF r.kind # "Ok" THEN Finish(Top, r)
                                 ELSE Goto([Top EXCEPT !.context = ApplyOverrides(task, @)],
                                           AfterValidate(task)))
             /\ cli' = cli
             /\ log' = IF r.kind # "Ok" /\ task.environment # <<>>
                          /\ is_shell_command(task.environment[1].value)
                       THEN Append(log, Spawn(Top.task, "env", 1)) ELSE log
  /\ UNCHANGED <<objects, catalog, path, draw_target, mutex, threads, execution_stack, par>>

\* the assertion, validate_parallel_commands, then the task's overrides onto
\* the context; a panic unwinds every activation and ends the process
Validate ==
  /\ frames # <<>>
  /\ Top.pc = "validate"
  /\ LET task == catalog[Top.task]
         a == assert_commands(task, Top.task)
         r == validate_parallel_commands(task, Top.task)
     IN IF a = Panic
        THEN /\ frames' = <<>>
             /\ cli' = [cli EXCEPT !.pc = "panicked"]
        ELSE /\ frames' = SetTop(IF r.kind # "Ok" THEN Finish(Top, r)
                                 ELSE Goto([Top EXCEPT !.context = ApplyOverrides(task, @)],
                                           AfterValidate(task)))
             /\ cli' = cli
  /\ UNCHANGED <<objects, catalog, path, draw_target, mutex, threads, execution_stack, par, log>>

\* TaskArgs::verbose: the task's own verbose or the default, not the context's
TaskVerbose(task) == UnwrapOr(task.verbose, default_verbose)

\* load_env / get_env_value on one declared value: a $(...) value spawns its
\* command in the shell; without a piped stdout, or without a first line of
\* output, run_shell_command! fails
LoadEnv ==
  /\ frames # <<>>
  /\ Top.pc = "env"
  /\ LET task == catalog[Top.task]
         value == task.environment[Top.i].value
     IN IF ~is_shell_command(value)
        THEN /\ frames' = SetTop(Advance(Top, task))
             /\ log' = log
        ELSE /\ log' = Append(log, Spawn(Top.task, "env", Top.i))
             /\ \E line \in BOOLEAN :
                  frames' = SetTop(
                    IF ~TaskVerbose(task) THEN Finish(Top, Err("StdoutNotOpened", Top.task))
                    ELSE IF ~line THEN Finish(Top, Err("StdoutEmpty", Top.task))
                    ELSE Advance(Top, task))
  /\ UNCHANGED <<objects, catalog, path, draw_target, mutex, threads, execution_stack, cli, par>>

\* HashMap::insert
Insert(env, key, value) ==
  [x \in DOMAIN env \cup {key} |-> IF x = key THEN value ELSE env[x]]

\* TaskContext::extend_env_vars (HashMap::extend): an entry of `more` replaces
\* the entry of `env` with the same key
Extend(env, more) ==
  [x \in DOMAIN env \cup DOMAIN more |-> IF x \in DOMAIN more THEN more[x] ELSE env[x]]

\* get_env_value once the substitution has succeeded
get_env_value(value) == IF is_shell_command(value) THEN Stdout ELSE value

\* load_env: the declared environment with its values resolved
load_env(task) ==
  [key \in {task.environment[j].key : j \in DOMAIN task.environment} |->
     get_env_value((CHOOSE e \in {task.environment[j] : j \in DOMAIN task.environment} :
                      e.key = key).value)]

\* the loop over the lines of one file: `key=value` lines are inserted with
\* both sides trimmed, other lines are passed over
RECURSIVE InsertLines(_, _)
InsertLines(env, lines) ==
  IF lines = <<>> THEN env
  ELSE LET line == Head(lines)
           at == SplitAt(line)
       IN InsertLines(IF at = 0 THEN env
                      ELSE Insert(env, Trim(SubSeq(line, 1, at - 1)),
                                  Trim(SubSeq(line, at + 1, Len(line)))),
                      Tail(lines))

\* the loop over env_file, in list order
RECURSIVE InsertFiles(_, _)
InsertFiles(env, files) ==
  IF files = <<>> THEN env
  ELSE InsertFiles(InsertLines(env, Head(files).lines), Tail(files))

\* load_env_file: fs::read_to_string fails on a file that cannot be read
load_env_file(task, name) ==
  IF \E j \in DOMAIN task.env_file : ~task.env_file[j].readable
  THEN [result |-> Err("EnvFileUnreadable", name), env |-> <<>>]
  ELSE [result |-> Ok, env |-> InsertFiles(<<>>, task.env_file)]

\* mutant: the declared environment is merged on top of the env files
ExtendEnvVarsInlineLast(env_vars, defined_env, additional_env) ==
  Extend(Extend(env_vars, additional_env), defined_env)

\* context.extend_env_vars(defined_env); context.extend_env_vars(additional_env)
ExtendEnvVars(env_vars, defined_env, additional_env) ==
  Extend(Extend(env_vars, defined_env), additional_env)

\* load_env_file, then both merges into the context
LoadEnvFile ==
  /\ frames # <<>>
  /\ Top.pc = "envfile"
  /\ LET task == catalog[Top.task]
         loaded == load_env_file(task, Top.task)
     IN frames' = SetTop(
          IF loaded.result.kind # "Ok" THEN Finish(Top, loaded.result)
          ELSE Goto([Top EXCEPT !.context.env_vars =
                       ExtendEnvVars(@, load_env(task), loaded.env)],
                    AfterEnv(task)))
  /\ UNCHANGED <<objects, catalog, path, draw_target, mutex, threads, execution_stack, cli, par, log>>

(***************************************************************************)
(* TaskDependency::run, TaskRun::execute                                   *)
(***************************************************************************)
\* mutant: the lookup without the membership check
ResolveUnchecked(stack, name) ==
  IF name \notin DOMAIN catalog THEN Err("TaskNotFound", name) ELSE Ok

\* the catalog lookup, then the membership check on the ExecutionStack
Resolve(stack, name) ==
  IF name \notin DOMAIN catalog THEN Err("TaskNotFound", name)
  ELSE IF name \in stack THEN Err("CircularDependency", name)
  ELSE Ok

\* mutant: the name is entered into the stack before it is resolved
CallEnteringFirst(name, context) ==
  LET r == Resolve(execution_stack, name)
  IN /\ execution_stack' = execution_stack \cup {name}
     /\ IF r.kind # "Ok"
        THEN /\ frames' = SetTop(Finish(Top, r))
             /\ log' = log
        ELSE /\ frames' = Append(frames, NewFrame(name, context))
             /\ log' = Append(log, Begin(name, Top.task, CallPhase(Top), Top.i))

\* mutant: the task is run without its name being entered into the stack
CallNotEntering(name, context) ==
  LET r == Resolve(execution_stack, name)
  IN IF r.kind # "Ok"
     THEN /\ frames' = SetTop(Finish(Top, r))
          /\ UNCHANGED <<execution_stack, log>>
     ELSE /\ execution_stack' = execution_stack
          /\ frames' = Append(frames, NewFrame(name, context))
          /\ log' = Append(log, Begin(name, Top.task, CallPhase(Top), Top.i))

\* look the task up, enter its name into the stack, run it on `context`
Call(name, context) ==
  LET r == Resolve(execution_stack, name)
  IN IF r.kind # "Ok"
     THEN /\ frames' = SetTop(Finish(Top, r))
          /\ UNCHANGED <<execution_stack, log>>
     ELSE /\ execution_stack' = execution_stack \cup {name}
          /\ frames' = Append(frames, NewFrame(name, context))
          /\ log' = Append(log, Begin(name, Top.task, CallPhase(Top), Top.i))

\* TaskDependencyArgs::execute / TaskDependency::execute up to task.run
Dependency ==
  /\ frames # <<>>
  /\ Top.pc = "deps"
  /\ Call(catalog[Top.task].depends_on[Top.i], FromContext(Top.context))
  /\ UNCHANGED <<objects, catalog, path, draw_target, mutex, threads, cli, par>>

\* TaskRun::execute up to task.run
TaskRunExecute ==
  /\ frames # <<>>
  /\ Top.pc = "cmds"
  /\ LET command == catalog[Top.task].commands[Top.i]
     IN /\ command.kind = "TaskRun"
        /\ Call(command.task,
                FromContextWithArgs(Top.context,
                                    TaskRunIgnoreErrors(command, Top.context),
                                    TaskRunVerbose(command, Top.context)))
  /\ UNCHANGED <<objects, catalog, path, draw_target, mutex, threads, cli, par>>

\* mutant: the caller goes on with its next item whatever the nested task gave
AfterCallContinuing(caller, r) == Advance(caller, catalog[caller.task])

\* mutant: an error of the nested task is dropped when ignore_errors is in effect
AfterCallIgnoring(caller, r) ==
  IF r.kind = "Ok" \/ ContextIgnoreErrors(caller.context)
  THEN Advance(caller, catalog[caller.task]) ELSE Finish(caller, r)

\* what the caller does with the result of the nested Task::run: `?`
AfterCall(caller, r) ==
  IF r.kind = "Ok" THEN Advance(caller, catalog[caller.task]) ELSE Finish(caller, r)

\* mutant: a task's name leaves the ExecutionStack when the task returns
ReturnLeavingStack ==
  /\ Len(frames) > 1
  /\ Top.pc = "ret"
  /\ frames' = [k \in 1..(Len(frames) - 1) |->
                  IF k = Len(frames) - 1 THEN AfterCall(frames[k], Top.res)
                  ELSE frames[k]]
  /\ log' = Append(log, Returned(Top.task, frames[Len(frames) - 1].task,
                                 CallPhase(frames[Len(frames) - 1]),
                                 frames[Len(frames) - 1].i, Top.res.kind))
  /\ execution_stack' = execution_stack \ {Top.task}
  /\ UNCHANGED <<objects, catalog, path, draw_target, mutex, threads, cli, par>>

\* mutant: the caller goes on with the context of the task it called
ReturnSharingContext ==
  /\ Len(frames) > 1
  /\ Top.pc = "ret"
  /\ frames' = [k \in 1..(Len(frames) - 1) |->
                  IF k = Len(frames) - 1
                  THEN [AfterCall(frames[k], Top.res) EXCEPT !.context = Top.context]
                  ELSE frames[k]]
  /\ log' = Append(log, Returned(Top.task, frames[Len(frames) - 1].task,
                                 CallPhase(frames[Len(frames) - 1]),
                                 frames[Len(frames) - 1].i, Top.res.kind))
  /\ UNCHANGED <<objects, catalog, path, draw_target, mutex, threads, execution_stack, cli, par>>

\* the nested Task::run returns to TaskDependency::run or TaskRun::execute
Return ==
  /\ Len(frames) > 1
  /\ Top.pc = "ret"
  /\ frames' = [k \in 1..(Len(frames) - 1) |->
                  IF k = Len(frames) - 1 THEN AfterCall(frames[k], Top.res)
                  ELSE frames[k]]
  /\ log' = Append(log, Returned(Top.task, frames[Len(frames) - 1].task,
                                 CallPhase(frames[Len(frames) - 1]),
                                 frames[Len(frames) - 1].i, Top.res.kind))
  /\ UNCHANGED <<objects, catalog, path, draw_target, mutex, threads, execution_stack, cli, par>>

(***************************************************************************)
(* Precondition::execute                                                   *)
(***************************************************************************)
PreconditionSpawn ==
  /\ frames # <<>>
  /\ Top.pc = "pre"
  /\ ~Top.running
  /\ frames' = SetTop([Top EXCEPT !.running = TRUE])
  /\ log' = Append(log, Spawn(Top.task, "pre", Top.i))
  /\ UNCHANGED <<objects, catalog, path, draw_target, mutex, threads, execution_stack, cli, par>>

\* mutant: a precondition failure that ignore_errors suppresses
PreconditionResultIgnoring(code, context, task) ==
  IF code # 0 /\ ~ContextIgnoreErrors(context) THEN Err("PreconditionFailed", task) ELSE Ok

\* the result of a precondition whose process exited with `code`
PreconditionResult(code, context, task) ==
  IF code # 0 THEN Err("PreconditionFailed", task) ELSE Ok

PreconditionWait ==
  /\ frames # <<>>
  /\ Top.pc = "pre"
  /\ Top.running
  /\ \E code \in ExitCodes :
       LET r == PreconditionResult(code, Top.context, Top.task)
       IN /\ frames' = SetTop(IF r.kind = "Ok" THEN Advance(Top, catalog[Top.task])
                              ELSE Finish(Top, r))
          /\ log' = Append(log, Exit(Top.task, "pre", Top.i, code, r.kind))
  /\ UNCHANGED <<objects, catalog, path, draw_target, mutex, threads, execution_stack, cli, par>>

(***************************************************************************)
(* CommandRunner::execute, sequential                                      *)
(***************************************************************************)
\* the result of a command whose process exited with `code`
CommandResult(command, context, code, task) ==
  IF code # 0 /\ ~Suppressed(command, context) THEN CommandError(command, task) ELSE Ok

\* mutant: the test never fails
TestAlwaysPasses(tcode) == FALSE

\* LocalRun::test gives an error when the test process exits non-zero
TestFails(tcode) == tcode # 0

\* LocalRun::execute before the spawn of an interactive command hides the
\* progress rendering; nothing sets the draw target back
SetDrawTarget(command, target) == IF Interactive(command) THEN "hidden" ELSE target

\* LocalRun::execute up to the spawn of the main command: a test that exits
\* non-zero skips the command
LocalRunStart ==
  /\ frames # <<>>
  /\ Top.pc = "cmds"
  /\ ~Top.running
  /\ LET command == catalog[Top.task].commands[Top.i]
     IN /\ command.kind = "LocalRun"
        /\ IF command.test = None
           THEN /\ frames' = SetTop([Top EXCEPT !.running = TRUE])
                /\ log' = Append(log, Spawn(Top.task, "cmd", Top.i))
                /\ draw_target' = SetDrawTarget(command, draw_target)
           ELSE \E tcode \in ExitCodes :
                  IF TestFails(tcode)
                  THEN /\ frames' = SetTop(Advance(Top, catalog[Top.task]))
                       /\ log' = log \o <<Spawn(Top.task, "test", Top.i),
                                          Exit(Top.task, "test", Top.i, tcode, "Skipped")>>
                       /\ draw_target' = draw_target
                  ELSE /\ frames' = SetTop([Top EXCEPT !.running = TRUE])
                       /\ log' = log \o <<Spawn(Top.task, "test", Top.i),
                                          Exit(Top.task, "test", Top.i, tcode, "Ok"),
                                          Spawn(Top.task, "cmd", Top.i)>>
                       /\ draw_target' = SetDrawTarget(command, draw_target)
  /\ UNCHANGED <<objects, catalog, path, mutex, threads, execution_stack, cli, par>>

\* CommandRunner::execute_command up to the spawn
CommandRunStart ==
  /\ frames # <<>>
  /\ Top.pc = "cmds"
  /\ ~Top.running
  /\ catalog[Top.task].commands[Top.i].kind = "CommandRun"
  /\ frames' = SetTop([Top EXCEPT !.running = TRUE])
  /\ log' = Append(log, Spawn(Top.task, "cmd", Top.i))
  /\ UNCHANGED <<objects, catalog, path, draw_target, mutex, threads, execution_stack, cli, par>>

\* which(name): the program is on the search path
which(name) == name \in path

\* which("docker").or_else(|_| which("podman"))
ContainerRuntime ==
  IF which("docker") THEN Some("docker")
  ELSE IF which("podman") THEN Some("podman") ELSE None

\* the tags of a ContainerBuild that get_tag evaluates in the shell
ShellTags(command) ==
  IF command.kind = "ContainerBuild"
  THEN SelectSeq(command.tags, is_shell_command) ELSE <<>>

\* the spawns of the tag substitutions of the command
TagSpawns(command) == [k \in DOMAIN ShellTags(command) |-> Spawn(Top.task, "tag", Top.i)]

\* ContainerRun::execute / ContainerBuild::execute after the runtime was found:
\* tag substitution (run_shell_command! fails without a piped stdout or
\* without a first line of output), the Dockerfile of a build, the spawn
ContainerSpawn(command) ==
  \E line \in BOOLEAN, dockerfile \in BOOLEAN :
    IF ShellTags(command) # <<>> /\ ~Verbose(command, Top.context)
    THEN /\ frames' = SetTop(Finish(Top, Err("StdoutNotOpened", Top.task)))
         /\ log' = log \o TagSpawns(command)
    ELSE IF ShellTags(command) # <<>> /\ ~line
    THEN /\ frames' = SetTop(Finish(Top, Err("StdoutEmpty", Top.task)))
         /\ log' = log \o TagSpawns(command)
    ELSE IF command.kind = "ContainerBuild" /\ ~dockerfile
    THEN /\ frames' = SetTop(Finish(Top, Err("DockerfileNotFound", Top.task)))
         /\ log' = log \o TagSpawns(command)
    ELSE /\ frames' = SetTop([Top EXCEPT !.running = TRUE])
         /\ log' = (log \o TagSpawns(command)) \o <<Spawn(Top.task, "cmd", Top.i)>>

\* mutant: the tags are substituted before the runtime is looked up
ContainerStartTagsFirst ==
  /\ frames # <<>>
  /\ Top.pc = "cmds"
  /\ ~Top.running
  /\ LET command == catalog[Top.task].commands[Top.i]
     IN /\ command.kind \in {"ContainerRun", "ContainerBuild"}
        /\ IF ContainerRuntime = None
           THEN /\ frames' = SetTop(Finish(Top, Err("RuntimeNotFound", Top.task)))
                /\ log' = log \o TagSpawns(command)
           ELSE ContainerSpawn(command)
  /\ UNCHANGED <<objects, catalog, path, draw_target, mutex, threads, execution_stack, cli, par>>

\* ContainerRun::execute / ContainerBuild::execute up to the spawn: docker or
\* podman has to be on the search path
ContainerStart ==
  /\ frames # <<>>
  /\ Top.pc = "cmds"
  /\ ~Top.running
  /\ LET command == catalog[Top.task].commands[Top.i]
     IN /\ command.kind \in {"ContainerRun", "ContainerBuild"}
        /\ IF ContainerRuntime = None
           THEN /\ frames' = SetTop(Finish(Top, Err("RuntimeNotFound", Top.task)))
                /\ log' = log
           ELSE ContainerSpawn(command)
  /\ UNCHANGED <<objects, catalog, path, draw_target, mutex, threads, execution_stack, cli, par>>

\* mutant: the loop goes on after a failed command
AfterCommandContinuing(f, r) == Advance(f, catalog[f.task])

\* `command.execute(context)?` in the loop of TaskArgs::run
AfterCommand(f, r) ==
  IF r.kind = "Ok" THEN Advance(f, catalog[f.task]) ELSE Finish(f, r)

\* cmd.wait() and the result of the command
CommandWait ==
  /\ frames # <<>>
  /\ Top.pc = "cmds"
  /\ Top.running
  /\ \E code \in ExitCodes :
       LET r == CommandResult(catalog[Top.task].commands[Top.i], Top.context, code, Top.task)
       IN /\ frames' = SetTop(AfterCommand(Top, r))
          /\ log' = Append(log, Exit(Top.task, "cmd", Top.i, code, r.kind))
  /\ UNCHANGED <<objects, catalog, path, draw_target, mutex, threads, execution_stack, cli, par>>

(***************************************************************************)
(* TaskArgs::execute_commands_parallel                                     *)
(***************************************************************************)
\* the characters of the result messages, in the order of their code points
Chars == <<" ", "0", "1", "2", "3", "4", "5", "6", "7", "8", "9", "c", "f">>

Code(ch) == CHOOSE k \in DOMAIN Chars : Chars[k] = ch

\* format!("{}", n): the decimal digits of n
RECURSIVE Decimal(_)
Decimal(n) ==
  IF n < 10 THEN <<Chars[n + 2]>>
  ELSE Decimal(n \div 10) \o <<Chars[(n % 10) + 2]>>

\* format!("Command {} failed: {}", i + 1, e) and format!("Command {} completed
\* successfully", i + 1), from the number on: every message starts with the
\* same "Command ", and the error text of a command is always the same
Message(index, success) == Decimal(index) \o <<" ", IF success THEN "c" ELSE "f">>

\* str::cmp: the order of the first character that differs, a proper prefix first
LexLess(a, b) ==
  \/ Len(a) < Len(b) /\ \A j \in DOMAIN a : a[j] = b[j]
  \/ \E k \in DOMAIN a \cap DOMAIN b :
       /\ \A j \in 1..(k - 1) : a[j] = b[j]
       /\ Code(a[k]) < Code(b[k])

\* CommandResult { index, success, message }
WorkerResult(index, success) ==
  [index |-> index, success |-> success, message |-> Message(index, success)]

\* the spawn loop: one thread per command, each with a clone of the context
ParSpawn ==
  /\ frames # <<>>
  /\ Top.pc = "par"
  /\ par' = [par EXCEPT !.handles = @ + 1, !.worker = Append(@, "spawned")]
  /\ frames' = SetTop(IF Top.i < Len(catalog[Top.task].commands)
                      THEN [Top EXCEPT !.i = @ + 1]
                      ELSE Goto(Top, "recv"))
  /\ UNCHANGED <<objects, catalog, path, draw_target, mutex, threads, execution_stack, cli, log>>

\* worker thread k: command.execute up to the spawn of the main command
WorkerStart(k) ==
  /\ frames # <<>>
  /\ k \in DOMAIN par.worker
  /\ par.worker[k] = "spawned"
  /\ LET command == catalog[Top.task].commands[k]
     IN IF command.test = None
        THEN /\ par' = [par EXCEPT !.worker[k] = "running"]
             /\ log' = Append(log, Spawn(Top.task, "cmd", k))
             /\ draw_target' = SetDrawTarget(command, draw_target)
        ELSE \E tcode \in ExitCodes :
               IF TestFails(tcode)
               THEN /\ par' = [par EXCEPT !.worker[k] = "sent",
                                          !.rx = Append(@, WorkerResult(k, TRUE))]
                    /\ log' = log \o <<Spawn(Top.task, "test", k),
                                       Exit(Top.task, "test", k, tcode, "Skipped")>>
                    /\ draw_target' = draw_target
               ELSE /\ par' = [par EXCEPT !.worker[k] = "running"]
                    /\ log' = log \o <<Spawn(Top.task, "test", k),
                                       Exit(Top.task, "test", k, tcode, "Ok"),
                                       Spawn(Top.task, "cmd", k)>>
                    /\ draw_target' = SetDrawTarget(command, draw_target)
  /\ UNCHANGED <<objects, catalog, path, mutex, threads, execution_stack, cli, frames>>

\* worker thread k: cmd.wait(), the result of the command, tx.send
WorkerExit(k) ==
  /\ frames # <<>>
  /\ k \in DOMAIN par.worker
  /\ par.worker[k] = "running"
  /\ \E code \in ExitCodes :
       LET r == CommandResult(catalog[Top.task].commands[k], Top.context, code, Top.task)
       IN /\ par' = [par EXCEPT !.worker[k] = "sent",
                                !.rx = Append(@, WorkerResult(k, r.kind = "Ok"))]
          /\ log' = Append(log, Exit(Top.task, "cmd", k, code, r.kind))
  /\ UNCHANGED <<objects, catalog, path, draw_target, mutex, threads, execution_stack, cli, frames>>

\* whether the orchestrator counts a received result as a failure
Collected(result, context) == ~result.success /\ ~ContextIgnoreErrors(context)

\* mutant: the loop also ends at the first failure
RecvLoopEndsOnFailure(p, command_count) ==
  p.completed >= command_count \/ p.failures # <<>>

\* `while completed < command_count` has ended
RecvLoopEnds(p, command_count) == p.completed >= command_count

\* the Senders of the channel that are alive: `tx` of the orchestrator, which
\* lives to the end of execute_commands_parallel, and the clone of every
\* worker that has not ended
Senders(p) ==
  1 + Cardinality({k \in DOMAIN p.worker : p.worker[k] \in {"spawned", "running"}})

\* rx.recv(): a queued result, an error once the queue is empty and no
\* Sender is left, and no return before one of the two
recv(p) ==
  IF p.rx # <<>> THEN "Ok"
  ELSE IF Senders(p) = 0 THEN "Err"
  ELSE "blocked"

\* the receive loop: rx.recv() and the bookkeeping of one result, or the
\* return of the channel error
ParRecv ==
  /\ frames # <<>>
  /\ Top.pc = "recv"
  /\ ~RecvLoopEnds(par, Len(catalog[Top.task].commands))
  /\ recv(par) # "blocked"
  /\ IF recv(par) = "Err"
     THEN /\ frames' = SetTop(Finish(Top, Err("ChannelError", Top.task)))
          /\ par' = NoPar
     ELSE /\ par' = [par EXCEPT
                       !.rx = Tail(@),
                       !.completed = @ + 1,
                       !.failures = IF Collected(Head(par.rx), Top.context)
                                    THEN Append(@, Head(par.rx).message) ELSE @]
          /\ frames' = frames
  /\ UNCHANGED <<objects, catalog, path, draw_target, mutex, threads, execution_stack, cli, log>>

\* mutant: the messages are joined in the order they arrived
SortedByArrival(failures) == failures

\* failures.sort(): the messages "Command <index> failed: ..." in ascending
\* order of their text (no two messages of one task are equal)
Sorted(failures) ==
  LET S == {failures[j] : j \in DOMAIN failures}
  IN CHOOSE s \in [1..Cardinality(S) -> S] :
       \A a, b \in 1..Cardinality(S) : a < b => LexLess(s[a], s[b])

\* after the loop: join the threads, then the aggregate result
ParFinish ==
  /\ frames # <<>>
  /\ Top.pc = "recv"
  /\ RecvLoopEnds(par, Len(catalog[Top.task].commands))
  /\ frames' = SetTop(Finish(Top, IF par.failures # <<>>
                                  THEN FailedCommands(Sorted(par.failures))
                                  ELSE Ok))
  /\ par' = NoPar
  /\ UNCHANGED <<objects, catalog, path, draw_target, mutex, threads, execution_stack, cli, log>>

Next ==
  \/ \E task_name \in Names : RunTask(task_name)
  \/ RunTaskEnd
  \/ Validate
  \/ LoadEnv
  \/ LoadEnvFile
  \/ Dependency
  \/ TaskRunExecute
  \/ Return
  \/ PreconditionSpawn
  \/ PreconditionWait
  \/ LocalRunStart
  \/ CommandRunStart
  \/ ContainerStart
  \/ CommandWait
  \/ ParSpawn
  \/ \E k \in DOMAIN par.worker : WorkerStart(k)
  \/ \E k \in DOMAIN par.worker : WorkerExit(k)
  \/ ParRecv
  \/ ParFinish

Spec == Init /\ [][Next]_vars

(***************************************************************************)
(* SpecEnter: the entry of a name into the ExecutionStack, as              *)
(* TaskDependencyArgs::execute and TaskRun::execute do it, run by          *)
(* NumThreads threads on one shared stack.  The engine itself resolves     *)
(* names on the orchestrating thread only; this specification is about the *)
(* lock discipline of the entry.  `mutex` is the Mutex of the stack, each  *)
(* element of `threads` is one thread: its position, the name it resolves  *)
(* and the result of its call.                                             *)
(***************************************************************************)
\* the names the threads resolve: two tasks of the catalog and an absent one
EnterNames == {"A", "B", "X"}

NewThread(name) == [pc |-> "lookup", name |-> name, result |-> Ok]

InitEnter ==
  /\ catalog = CatCycleDeps(None, None)
  /\ execution_stack \in SUBSET DOMAIN catalog
  /\ threads \in [1..NumThreads -> {NewThread(name) : name \in EnterNames}]
  /\ mutex = Unlocked
  /\ cli = [pc |-> "idle", task |-> "", result |-> Ok]
  /\ frames = <<>>
  /\ par = NoPar
  /\ log = <<>>
  /\ draw_target = "stderr"
  /\ path = {}
  /\ shell_def = default_shell
  /\ proc = None
  /\ task_context = NewContext
  /\ child = NoChild

\* context.task_root.tasks.get(name).ok_or_else(|| "Task not found")?
EnterLookup(t) ==
  /\ threads[t].pc = "lookup"
  /\ threads' = [threads EXCEPT ![t] =
                   IF threads[t].name \in DOMAIN catalog THEN [@ EXCEPT !.pc = "lock"]
                   ELSE [@ EXCEPT !.pc = "done",
                                  !.result = Err("TaskNotFound", threads[t].name)]]
  /\ UNCHANGED <<objects, catalog, path, draw_target, mutex, execution_stack, cli, frames, par, log>>

\* mutant: a lock that does not exclude
AcquirableAlways(m) == TRUE

\* Mutex::lock returns when no thread holds the guard
Acquirable(m) == m = Unlocked

\* context.execution_stack.lock()
EnterLock(t) ==
  /\ threads[t].pc = "lock"
  /\ Acquirable(mutex)
  /\ mutex' = t
  /\ threads' = [threads EXCEPT ![t].pc = "contains"]
  /\ UNCHANGED <<objects, catalog, path, draw_target, execution_stack, cli, frames, par, log>>

\* `if stack.contains(name) { bail!(...) }`: the bail drops the guard
EnterContains(t) ==
  /\ threads[t].pc = "contains"
  /\ IF threads[t].name \in execution_stack
     THEN /\ threads' = [threads EXCEPT ![t] =
                           [@ EXCEPT !.pc = "done",
                                     !.result = Err("CircularDependency", threads[t].name)]]
          /\ mutex' = Unlocked
     ELSE /\ threads' = [threads EXCEPT ![t].pc = "insert"]
          /\ mutex' = mutex
  /\ UNCHANGED <<objects, catalog, path, draw_target, execution_stack, cli, frames, par, log>>

\* stack.insert(name)
EnterInsert(t) ==
  /\ threads[t].pc = "insert"
  /\ execution_stack' = execution_stack \cup {threads[t].name}
  /\ threads' = [threads EXCEPT ![t].pc = "unlock"]
  /\ UNCHANGED <<objects, catalog, path, draw_target, mutex, cli, frames, par, log>>

\* mutant: the guard lives on while the target task runs
EnterKeepingGuard(t) ==
  /\ threads[t].pc = "unlock"
  /\ threads' = [threads EXCEPT ![t].pc = "run"]
  /\ UNCHANGED <<objects, catalog, path, draw_target, mutex, execution_stack, cli, frames, par, log>>

\* the end of the block drops the guard
EnterUnlock(t) ==
  /\ threads[t].pc = "unlock"
  /\ mutex' = Unlocked
  /\ threads' = [threads EXCEPT ![t].pc = "run"]
  /\ UNCHANGED <<objects, catalog, path, draw_target, execution_stack, cli, frames, par, log>>

\* task.run(&mut context): the target task is started
EnterRun(t) ==
  /\ threads[t].pc = "run"
  /\ threads' = [threads EXCEPT ![t].pc = "started"]
  /\ UNCHANGED <<objects, catalog, path, draw_target, mutex, execution_stack, cli, frames, par, log>>

NextEnter ==
  \E t \in DOMAIN threads :
    \/ EnterLookup(t)
    \/ EnterLock(t)
    \/ EnterContains(t)
    \/ EnterInsert(t)
    \/ EnterUnlock(t)
    \/ EnterRun(t)

SpecEnter == InitEnter /\ [][NextEnter]_vars

(***************************************************************************)
(* SpecLock: the threads of SpecEnter go on after the target was started:  *)
(* the running task enters the name of a dependency or of a TaskRun target *)
(* on the same thread, or the invocation ends with the clear of the stack  *)
(***************************************************************************)
\* dependency.run(context) / command.execute(context) inside task.run: the
\* thread that runs the task enters the next name
EnterNested(t) ==
  /\ threads[t].pc = "started"
  /\ Len(log) < MaxNest
  /\ \E name \in EnterNames :
       /\ threads' = [threads EXCEPT ![t] = NewThread(name)]
       /\ log' = Append(log, Begin(name, threads[t].name, "deps", t))
  /\ UNCHANGED <<objects, catalog, path, draw_target, mutex, execution_stack, cli, frames, par>>

\* CliEntry::run_task after task.run: self.execution_stack.lock()
ClearLock(t) ==
  /\ threads[t].pc = "started"
  /\ Acquirable(mutex)
  /\ mutex' = t
  /\ threads' = [threads EXCEPT ![t].pc = "clear"]
  /\ UNCHANGED <<objects, catalog, path, draw_target, execution_stack, cli, frames, par, log>>

\* stack.clear(), and the end of the block drops the guard
Clear(t) ==
  /\ threads[t].pc = "clear"
  /\ execution_stack' = {}
  /\ mutex' = Unlocked
  /\ threads' = [threads EXCEPT ![t].pc = "done"]
  /\ UNCHANGED <<objects, catalog, path, draw_target, cli, frames, par, log>>

NextLock ==
  \E t \in DOMAIN threads :
    \/ EnterLookup(t)
    \/ EnterLock(t)
    \/ EnterContains(t)
    \/ EnterInsert(t)
    \/ EnterUnlock(t)
    \/ EnterRun(t)
    \/ EnterNested(t)
    \/ ClearLock(t)
    \/ Clear(t)

SpecLock == InitEnter /\ [][NextLock]_vars

(***************************************************************************)
(* SpecShell: Shell::proc on every declared shell                          *)
(***************************************************************************)
\* no invocation is under way
EngineIdle ==
  /\ catalog = CatCycleDeps(None, None)
  /\ execution_stack = {}
  /\ cli = [pc |-> "idle", task |-> "", result |-> Ok]
  /\ frames = <<>>
  /\ par = NoPar
  /\ log = <<>>
  /\ draw_target = "stderr"
  /\ mutex = Unlocked
  /\ threads = <<>>
  /\ path = {}

engine == <<catalog, execution_stack, cli, frames, par, log, draw_target, mutex,
            threads, path>>

\* the shell commands and flags a task file may declare
ShellCommands == posix_shell \cup {"python", "nu"}

ShellFlags == {"-c", "-e"}

ArgLists == UNION {[1..n -> ShellFlags] : n \in 0..MaxArgs}

Shells ==
  {ShellString(command) : command \in ShellCommands}
  \cup {ShellWith(command, args) :
          command \in ShellCommands, args \in {None} \cup {Some(l) : l \in ArgLists}}

InitShell ==
  /\ EngineIdle
  /\ shell_def \in Shells
  /\ proc = None
  /\ task_context = NewContext
  /\ child = NoChild

\* Shell::proc
Proc ==
  /\ proc = None
  /\ proc' = Some(ShellProc(shell_def))
  /\ UNCHANGED <<engine, shell_def, task_context, child>>

NextShell == Proc

SpecShell == InitShell /\ [][NextShell]_vars

(***************************************************************************)
(* SpecContext: the setters and getters of one TaskContext.  `log` holds   *)
(* the last call made on it.                                               *)
(***************************************************************************)
\* the shells and environment entries the callers pass
ContextShells == {ShellString("bash"), ShellWith("zsh", Some(<<"-e">>)), ShellWith("nu", None)}

ContextEntries == {<<"K">> :> <<"a">>, <<"K">> :> <<"b">>, <<"L">> :> <<"a">>}

\* the call made on the context
Called(name, arg) == [ev |-> name, arg |-> arg]

\* TaskContext::empty
InitContext ==
  /\ catalog = CatCycleDeps(None, None)
  /\ execution_stack = {}
  /\ cli = [pc |-> "idle", task |-> "", result |-> Ok]
  /\ frames = <<>>
  /\ par = NoPar
  /\ log = <<>>
  /\ draw_target = "hidden"
  /\ mutex = Unlocked
  /\ threads = <<>>
  /\ path = {}
  /\ shell_def = default_shell
  /\ proc = None
  /\ task_context = NewContext
  /\ child = NoChild

held == <<catalog, execution_stack, cli, frames, par, draw_target, mutex, threads, path,
          shell_def, proc, child>>

SetShell(shell) ==
  /\ task_context' = set_shell(task_context, shell)
  /\ log' = <<Called("set_shell", shell)>>
  /\ UNCHANGED held

SetIgnoreErrors(ignore_errors) ==
  /\ task_context' = set_ignore_errors(task_context, ignore_errors)
  /\ log' = <<Called("set_ignore_errors", ignore_errors)>>
  /\ UNCHANGED held

SetVerbose(verbose) ==
  /\ task_context' = set_verbose(task_context, verbose)
  /\ log' = <<Called("set_verbose", verbose)>>
  /\ UNCHANGED held

\* TaskContext::extend_env_vars
ExtendContextEnv(entries) ==
  /\ task_context' = [task_context EXCEPT !.env_vars = Extend(@, entries)]
  /\ log' = <<Called("extend_env_vars", entries)>>
  /\ UNCHANGED held

NextContext ==
  \/ \E shell \in ContextShells : SetShell(shell)
  \/ \E ignore_errors \in BOOLEAN : SetIgnoreErrors(ignore_errors)
  \/ \E verbose \in BOOLEAN : SetVerbose(verbose)
  \/ \E entries \in ContextEntries : ExtendContextEnv(entries)

SpecContext == InitContext /\ [][NextContext]_vars

(***************************************************************************)
(* The receive loop and the aggregate result of a parallel task with       *)
(* NumWide commands, run from the moment every worker has sent its result  *)
(***************************************************************************)
\* P is a parallel task of NumWide plain local commands
CatWide ==
  "P" :> TaskArgs(<<>>, 0, [k \in 1..NumWide |-> Plain], <<>>, Some(TRUE), None, None)

\* the orders the results arrive in: by index, and by index backwards
Arrivals == {[k \in 1..NumWide |-> k], [k \in 1..NumWide |-> NumWide + 1 - k]}

\* the sets of commands that fail
FailingSets == {F \in SUBSET (1..NumWide) : Cardinality(F) <= MaxFail}

\* the workers that ended without a result: command.execute panicked before
\* tx.send (the assertion on the command text, before any process is spawned)
SilentSets == {{}} \cup {{k} : k \in 1..NumWide}

\* a sequence without the elements whose index is in `silent`
RECURSIVE Without(_, _)
Without(order, silent) ==
  IF order = <<>> THEN <<>>
  ELSE IF Head(order) \in silent THEN Without(Tail(order), silent)
  ELSE <<Head(order)>> \o Without(Tail(order), silent)

\* run_task("P") after the spawn loop, every worker having ended: those of
\* `silent` without a result, the others having run their command and sent
\* its result; the commands of `failing` exited with 1
InitSort ==
  /\ catalog = CatWide
  /\ execution_stack = {"P"}
  /\ cli = [pc |-> "running", task |-> "P", result |-> Ok]
  /\ frames = <<Goto(NewFrame("P", NewContext), "recv")>>
  /\ \E failing \in FailingSets, order \in Arrivals, silent \in SilentSets :
       LET code(k) == IF k \in failing THEN 1 ELSE 0
           result(k) == CommandResult(Plain, NewContext, code(k), "P")
           sent == Without(order, silent)
           ran == Without([k \in 1..NumWide |-> k], silent)
       IN /\ par = [handles |-> NumWide,
                    worker |-> [k \in 1..NumWide |->
                                  IF k \in silent THEN "panicked" ELSE "sent"],
                    rx |-> [k \in DOMAIN sent |->
                              WorkerResult(sent[k], result(sent[k]).kind = "Ok")],
                    completed |-> 0,
                    failures |-> <<>>]
          /\ log = <<Begin("P", "", "top", 0)>>
                     \o [k \in DOMAIN ran |-> Spawn("P", "cmd", ran[k])]
                     \o [k \in DOMAIN sent |->
                           Exit("P", "cmd", sent[k], code(sent[k]), result(sent[k]).kind)]
  /\ draw_target = "stderr"
  /\ mutex = Unlocked
  /\ threads = <<>>
  /\ path = {}
  /\ shell_def = default_shell
  /\ proc = None
  /\ task_context = NewContext
  /\ child = NoChild

NextSort ==
  \/ ParRecv
  \/ ParFinish
  \/ RunTaskEnd

SpecSort == InitSort /\ [][NextSort]_vars

\* the orchestrating thread is scheduled as long as it can take a step
SpecSortFair == SpecSort /\ WF_vars(NextSort)

(***************************************************************************)
(* One spawned child process, its standard streams and the threads that    *)
(* read them, from cmd.spawn() to the end of the parent's part             *)
(***************************************************************************)
\* the places that spawn a process
Sites == {"LocalRun", "test", "Precondition", "CommandRun", "ContainerRun",
          "ContainerBuild", "substitution"}

\* the output streams of a process
Streams == {"stdout", "stderr"}

\* get_output_handler
get_output_handler(verbose) == IF verbose THEN "piped" ELSE "null"

\* a stream std::process::Command was not told about is inherited
Inherited == [stdin |-> "inherit", stdout |-> "inherit", stderr |-> "inherit"]

\* the Stdio each place gives the process; `verbose` is the effective verbose
\* of the place (self.verbose(context) and the like)
Stdio(site, verbose, interactive) ==
  IF site = "LocalRun"
  THEN IF interactive \/ verbose
       THEN IF interactive THEN Inherited
            ELSE [Inherited EXCEPT !.stdout = get_output_handler(interactive \/ verbose),
                                   !.stderr = get_output_handler(interactive \/ verbose)]
       ELSE Inherited
  ELSE IF site = "substitution"
  THEN [Inherited EXCEPT !.stdout = get_output_handler(verbose)]
  ELSE [Inherited EXCEPT !.stdout = get_output_handler(verbose),
                         !.stderr = get_output_handler(verbose)]

\* mutant: only stdout gets a reading thread
HandleStdoutOnly(site, verbose, interactive) ==
  IF site = "substitution" THEN {}
  ELSE IF site = "LocalRun"
  THEN IF (interactive \/ verbose) /\ ~interactive THEN {"stdout"} ELSE {}
  ELSE IF verbose THEN {"stdout"} ELSE {}

\* the streams handle_output! (in ContainerRun the same code inline) starts a
\* reading thread for, after cmd.spawn()
handle_output(site, verbose, interactive) ==
  IF site = "substitution" THEN {}
  ELSE IF site = "LocalRun"
  THEN IF (interactive \/ verbose) /\ ~interactive THEN Streams ELSE {}
  ELSE IF verbose THEN Streams ELSE {}

\* the process right after cmd.spawn(): it has `out` and `err` lines to write
Spawned(site, verbose, interactive, out, err) ==
  [site |-> site, verbose |-> verbose, interactive |-> interactive,
   stdio |-> Stdio(site, verbose, interactive),
   todo |-> [stdout |-> out, stderr |-> err],
   pipe |-> [stdout |-> 0, stderr |-> 0],
   open |-> {s \in Streams : Stdio(site, verbose, interactive)[s] = "piped"},
   readers |-> {},
   exited |-> FALSE,
   pc |-> "spawned",
   result |-> Ok]

InitPipe ==
  /\ EngineIdle
  /\ shell_def = default_shell
  /\ proc = None
  /\ task_context = NewContext
  /\ \E site \in Sites, verbose \in BOOLEAN, interactive \in BOOLEAN,
        out \in 0..MaxOut, err \in 0..MaxOut :
       /\ interactive => site = "LocalRun"
       /\ child = Spawned(site, verbose, interactive, out, err)

\* the child is about to write to a pipe that is full and still read
BlockedOn(s) ==
  /\ ~child.exited
  /\ child.todo[s] > 0
  /\ child.stdio[s] = "piped"
  /\ s \in child.open
  /\ child.pipe[s] = PipeCap

\* the child writes one line: to a pipe when there is room, into the void
\* or the terminal at once; a pipe nobody reads any more ends it (SIGPIPE)
ChildWrite(s) ==
  /\ child # NoChild
  /\ ~child.exited
  /\ child.todo[s] > 0
  /\ IF child.stdio[s] # "piped"
     THEN child' = [child EXCEPT !.todo[s] = @ - 1]
     ELSE IF s \notin child.open
     THEN child' = [child EXCEPT !.exited = TRUE]
     ELSE /\ child.pipe[s] < PipeCap
          /\ child' = [child EXCEPT !.todo[s] = @ - 1, !.pipe[s] = @ + 1]
  /\ UNCHANGED <<engine, shell_def, proc, task_context>>

\* the child has written everything and exits
ChildExit ==
  /\ child # NoChild
  /\ ~child.exited
  /\ \A s \in Streams : child.todo[s] = 0
  /\ child' = [child EXCEPT !.exited = TRUE]
  /\ UNCHANGED <<engine, shell_def, proc, task_context>>

\* the parent after cmd.spawn(): the reading threads are started, then the
\* parent goes to cmd.wait(); run_shell_command! takes child.stdout and
\* reads it itself
HandleOutput ==
  /\ child # NoChild
  /\ child.pc = "spawned"
  /\ child' =
       IF child.site = "substitution"
       THEN IF child.stdio.stdout # "piped"
            THEN [child EXCEPT !.pc = "done", !.result = Err("StdoutNotOpened", "")]
            ELSE [child EXCEPT !.pc = "read"]
       ELSE [child EXCEPT !.pc = "wait",
                          !.readers = handle_output(child.site, child.verbose,
                                                    child.interactive)]
  /\ UNCHANGED <<engine, shell_def, proc, task_context>>

\* a reading thread: reader.lines() takes one line out of the pipe
ReadLine(s) ==
  /\ child # NoChild
  /\ s \in child.readers
  /\ child.pipe[s] > 0
  /\ child' = [child EXCEPT !.pipe[s] = @ - 1]
  /\ UNCHANGED <<engine, shell_def, proc, task_context>>

\* run_shell_command!: buf.lines().next() gives the first line, or nothing
\* at the end of the stream; the reader and the child handle are dropped
\* and the child is never waited for
FirstLine ==
  /\ child # NoChild
  /\ child.pc = "read"
  /\ \/ /\ child.pipe.stdout > 0
        /\ child' = [child EXCEPT !.pc = "done", !.pipe.stdout = 0,
                                  !.open = @ \ {"stdout"}]
     \/ /\ child.pipe.stdout = 0
        /\ child.exited
        /\ child' = [child EXCEPT !.pc = "done", !.open = @ \ {"stdout"},
                                  !.result = Err("StdoutEmpty", "")]
  /\ UNCHANGED <<engine, shell_def, proc, task_context>>

\* cmd.wait() returns once the child has exited
Wait ==
  /\ child # NoChild
  /\ child.pc = "wait"
  /\ child.exited
  /\ child' = [child EXCEPT !.pc = "done"]
  /\ UNCHANGED <<engine, shell_def, proc, task_context>>

NextPipe ==
  \/ \E s \in Streams : ChildWrite(s)
  \/ ChildExit
  \/ HandleOutput
  \/ \E s \in Streams : ReadLine(s)
  \/ FirstLine
  \/ Wait

SpecPipe == InitPipe /\ [][NextPipe]_vars

(***************************************************************************)
(* Properties                                                              *)
(***************************************************************************)
\* the task an event belongs to: the caller, for a nested begin / return
Owner(e) == IF e.ev \in {"begin", "return"} THEN e.by ELSE e.task

\* the event starts a precondition of its owner
PreStart(e) == e.ev = "spawn" /\ e.phase = "pre"

\* the event starts a command of its owner: a process of a local, raw or
\* container command (or of its test), or the nested task of a TaskRun
CmdStart(e) ==
  \/ e.ev = "spawn" /\ e.phase \in {"test", "cmd"}
  \/ e.ev = "begin" /\ e.phase = "cmd"

\* the event starts a depends_on entry of its owner
DepStart(e) == e.ev = "begin" /\ e.phase = "deps"

\* the frame of task t, if Task::run of t is active
FramesOf(t) == {k \in DOMAIN frames : frames[k].task = t}

\* C1: a precondition that exits non-zero makes Task.run of its task return a
\* 'Precondition failed' error whatever the ignore_errors settings are, and no
\* later precondition, no command and no worker of that task is started.
C1_PreconditionFailureIsFatal ==
  \A k \in DOMAIN log :
    (log[k].ev = "exit" /\ log[k].phase = "pre" /\ log[k].code # 0) =>
      /\ log[k].kind = "PreconditionFailed"
      /\ \A j \in DOMAIN log :
           j > k => /\ ~(Owner(log[j]) = log[k].task
                         /\ (PreStart(log[j]) \/ CmdStart(log[j]) \/ DepStart(log[j])))
                    /\ (log[j].ev = "return" /\ log[j].task = log[k].task)
                         => log[j].kind = "PreconditionFailed"
      /\ \A f \in FramesOf(log[k].task) :
           /\ frames[f].pc = "ret"
           /\ frames[f].res = Err("PreconditionFailed", log[k].task)
           /\ f = Len(frames) => par = NoPar

\* C1 witness: the second precondition of B failed while every override on the
\* way (A, the TaskRun, B, B's command) sets ignore_errors, and the invocation
\* of A ended with that failure
C1_Witness ==
  /\ catalog = CatNested(Some(TRUE), Some(TRUE), Some(TRUE), Some(TRUE))
  /\ cli.pc = "done"
  /\ cli.task = "A"
  /\ cli.result.kind = "PreconditionFailed"
  /\ \E k \in DOMAIN log :
       log[k].ev = "exit" /\ log[k].phase = "pre" /\ log[k].idx = NumPre /\ log[k].code # 0

\* the tasks a task refers to: its depends_on entries and its TaskRun commands
Refs(cat, t) ==
  {cat[t].depends_on[k] : k \in DOMAIN cat[t].depends_on}
  \cup {cat[t].commands[k].task :
          k \in {j \in DOMAIN cat[t].commands : cat[t].commands[j].kind = "TaskRun"}}

RECURSIVE ReachFrom(_, _)
\* the tasks of the catalog reachable from the set S (S included)
ReachFrom(cat, S) ==
  LET N == S \cup UNION {Refs(cat, t) \cap DOMAIN cat : t \in S}
  IN IF N = S THEN S ELSE ReachFrom(cat, N)

\* a cycle is reachable from the invoked task
HasCycle(cat, top) ==
  /\ top \in DOMAIN cat
  /\ \E u \in ReachFrom(cat, {top}) : u \in ReachFrom(cat, Refs(cat, u) \cap DOMAIN cat)

\* a step of the invocation failed: a precondition or a command whose execute
\* gave an error
FailedItem(e) == e.ev = "exit" /\ e.kind \notin {"Ok", "Skipped"}

\* the reachable part of the catalog has another source of failure than
\* processes and cycles: a missing task, an invalid parallel task, a container
\* command or an environment substitution
OtherFailureSource(cat, top) ==
  \E t \in ReachFrom(cat, {top}) :
    \/ ~(Refs(cat, t) \subseteq DOMAIN cat)
    \/ validate_parallel_commands(cat[t], t).kind # "Ok"
    \/ \E k \in DOMAIN cat[t].commands :
         cat[t].commands[k].kind \in {"ContainerRun", "ContainerBuild"}
    \/ \E k \in DOMAIN cat[t].environment : is_shell_command(cat[t].environment[k].value)

\* C2 as stated: an invocation that can reach a cycle ends with
\* 'Circular dependency detected'.
C2_CycleEndsWithCircularDependency ==
  (cli.pc = "done" /\ HasCycle(catalog, cli.task)) =>
    cli.result.kind = "CircularDependency"

\* C2 as amended: an invocation that can reach a cycle never nests Task.run
\* deeper than the number of tasks and never ends with success; it ends with
\* 'Circular dependency detected' unless a precondition, a command or another
\* step reached before the repeated name failed first.
C2_CycleEndsWithError ==
  /\ Len(frames) <= Cardinality(DOMAIN catalog)
  /\ (cli.pc = "done" /\ HasCycle(catalog, cli.task)) =>
       /\ cli.result.kind # "Ok"
       /\ cli.result.kind # "CircularDependency" =>
            \/ \E k \in DOMAIN log : FailedItem(log[k]) /\ log[k].kind = cli.result.kind
            \/ OtherFailureSource(catalog, cli.task)

\* C2 witness: the cycle D -> E -> F -> D of dependency and TaskRun edges was
\* walked and the invocation of D ended with the circular-dependency error
C2_Witness ==
  /\ cli.pc = "done"
  /\ cli.task = "D"
  /\ HasCycle(catalog, "D")
  /\ cli.result = Err("CircularDependency", "D")
  /\ \E k \in DOMAIN log : log[k].ev = "begin" /\ log[k].task = "F"

\* dependency d of T returned success before position k of the log
DepOkBefore(T, d, k) ==
  \E j \in 1..(k - 1) :
    /\ log[j].ev = "return" /\ log[j].by = T /\ log[j].phase = "deps" /\ log[j].idx = d
    /\ log[j].task = catalog[T].depends_on[d]
    /\ log[j].kind = "Ok"

\* precondition i of T exited with status 0 before position k of the log
PreOkBefore(T, i, k) ==
  \E j \in 1..(k - 1) :
    /\ log[j].ev = "exit" /\ log[j].task = T /\ log[j].phase = "pre" /\ log[j].idx = i
    /\ log[j].code = 0

\* C3: within one task invocation no precondition starts before every
\* depends_on entry has returned success, no command starts before every
\* precondition has exited successfully, and no dependency starts after a
\* precondition or a command.
C3_PhasesInOrder ==
  \A k \in DOMAIN log :
    LET e == log[k]
        T == Owner(e)
    IN /\ PreStart(e) =>
            \A d \in DOMAIN catalog[T].depends_on : DepOkBefore(T, d, k)
       /\ CmdStart(e) =>
            /\ \A d \in DOMAIN catalog[T].depends_on : DepOkBefore(T, d, k)
            /\ \A i \in DOMAIN catalog[T].preconditions : PreOkBefore(T, i, k)
       /\ DepStart(e) =>
            \A j \in 1..(k - 1) :
              ~(Owner(log[j]) = T /\ (PreStart(log[j]) \/ CmdStart(log[j])))

\* C3 witness: a command of a task with dependencies and preconditions started
C3_Witness ==
  \E k \in DOMAIN log :
    /\ log[k].ev = "spawn" /\ log[k].phase = "cmd"
    /\ Len(catalog[log[k].task].depends_on) = 2
    /\ Len(catalog[log[k].task].preconditions) = NumPre

\* command c of T has run to completion in the log up to position k: its
\* process exited, or its test exited non-zero and skipped it
CompletedBefore(T, c, k) ==
  \E j \in 1..(k - 1) :
    /\ log[j].ev = "exit" /\ log[j].task = T /\ log[j].idx = c
    /\ log[j].phase = "cmd" \/ (log[j].phase = "test" /\ log[j].kind = "Skipped")

\* the results a parallel task gives once its commands have been executed
ParallelOutcomes == {"Ok", "FailedCommands"}

\* C4: in a parallel task one worker is started per command, and the task
\* gives its result (success or the aggregate failure) only after every
\* command has run to completion, whatever failed before.
C4_ParallelWaitsForAllWorkers ==
  /\ (frames # <<>> /\ Top.pc = "recv") =>
       /\ par.handles = Len(catalog[Top.task].commands)
       /\ Len(par.worker) = Len(catalog[Top.task].commands)
  /\ (frames # <<>> /\ Top.pc = "ret" /\ Parallel(catalog[Top.task])
        /\ Top.res.kind \in ParallelOutcomes) =>
       \A c \in DOMAIN catalog[Top.task].commands :
         CompletedBefore(Top.task, c, Len(log) + 1)
  /\ \A k \in DOMAIN log :
       (log[k].ev = "return" /\ Parallel(catalog[log[k].task])
          /\ log[k].kind \in ParallelOutcomes) =>
         \A c \in DOMAIN catalog[log[k].task].commands :
           CompletedBefore(log[k].task, c, k)

\* C4 witness: the first command of P failed, a sibling exited after that
\* failure, and P ended with the aggregate failure naming command 1 only
C4_Witness ==
  /\ cli.pc = "done"
  /\ cli.task = "P"
  /\ cli.result = FailedCommands(<<Message(1, FALSE)>>)
  /\ \E j, k \in DOMAIN log :
       /\ j < k
       /\ log[j].ev = "exit" /\ log[j].phase = "cmd" /\ log[j].idx = 1 /\ log[j].code # 0
       /\ log[k].ev = "exit" /\ log[k].phase = "cmd" /\ log[k].idx = NumPar /\ log[k].code = 0

\* the effective ignore_errors as the claims C5 and C7 define it: the command's
\* own override, else the enclosing task's, else the default false
DeclaredIgnoreErrors(command, task) ==
  UnwrapOr(OptOr(command.ignore_errors, task.ignore_errors), FALSE)

\* command c of T exited non-zero
ExitedNonZero(T, c) ==
  \E j \in DOMAIN log :
    /\ log[j].ev = "exit" /\ log[j].task = T /\ log[j].phase = "cmd" /\ log[j].idx = c
    /\ log[j].code # 0

\* C5 as stated: once every result of a parallel task is collected, the
\* failures kept for the aggregate are exactly the commands that exited
\* non-zero and whose effective ignore_errors is false, which is the decision
\* sequential execution (LocalRun::execute on the same context) makes.
C5_ParallelFailuresFollowCommandIgnoreErrors ==
  (frames # <<>> /\ Top.pc = "recv"
     /\ RecvLoopEnds(par, Len(catalog[Top.task].commands))) =>
    LET task == catalog[Top.task]
        kept == {par.failures[j] : j \in DOMAIN par.failures}
    IN \A c \in DOMAIN task.commands :
         /\ Message(c, FALSE) \in kept <=>
              (ExitedNonZero(Top.task, c) /\ ~DeclaredIgnoreErrors(task.commands[c], task))
         /\ Message(c, FALSE) \in kept <=>
              (ExitedNonZero(Top.task, c)
                 /\ CommandResult(task.commands[c], Top.context, 1, Top.task).kind # "Ok")

\* the errors task-level parallel validation gives
ConfigErrors == {"InteractiveInParallel", "ParallelUnsupported"}

\* a command C6 names as not allowed in a parallel task
NamedUnsafe(command) ==
  \/ command.kind \in {"ContainerRun", "ContainerBuild", "TaskRun"}
  \/ command.kind = "LocalRun" /\ Interactive(command)

\* Task::run of T has been entered and is past validate_parallel_commands
Validated(T) ==
  /\ \E k \in DOMAIN log : log[k].ev = "begin" /\ log[k].task = T
  /\ \A f \in FramesOf(T) : frames[f].pc # "validate"

\* Task::run of T gave r
Gave(T, r) ==
  \/ \E f \in FramesOf(T) : frames[f].pc = "ret" /\ frames[f].res = r
  \/ cli.pc = "done" /\ cli.task = T /\ cli.result = r
  \/ /\ \E k \in DOMAIN log : log[k].ev = "return" /\ log[k].task = T /\ log[k].kind = r.kind
     /\ cli.pc = "done" => cli.result = r

\* C6: a parallel task with an interactive LocalRun, a ContainerRun, a
\* ContainerBuild or a TaskRun among its commands fails with a configuration
\* error before it did anything (no environment substitution, dependency,
\* precondition, command or worker thread); a task reports a configuration
\* error of its own only if it is parallel and not all of its commands are
\* non-interactive LocalRuns.
C6_ParallelValidatedFirst ==
  \A T \in DOMAIN catalog :
    LET task == catalog[T]
    IN /\ (Validated(T) /\ Parallel(task)
             /\ \E c \in DOMAIN task.commands : NamedUnsafe(task.commands[c])) =>
            /\ \E kind \in ConfigErrors : Gave(T, Err(kind, T))
            /\ \A k \in DOMAIN log : Owner(log[k]) # T
            /\ \A f \in FramesOf(T) : f = Len(frames) => par = NoPar
       /\ (\E kind \in ConfigErrors : Gave(T, Err(kind, T))) =>
            /\ Parallel(task)
            /\ \E c \in DOMAIN task.commands :
                 ~(task.commands[c].kind = "LocalRun" /\ ~Interactive(task.commands[c]))

\* C6 witness: V, parallel with an interactive local command, an environment
\* substitution, a dependency and a precondition, was rejected
C6_Witness ==
  /\ cli.pc = "done"
  /\ cli.task = "V"
  /\ cli.result = Err("InteractiveInParallel", "V")
  /\ \E k \in DOMAIN catalog["V"].environment :
       is_shell_command(catalog["V"].environment[k].value)
  /\ catalog["V"].depends_on # <<>>
  /\ catalog["V"].preconditions # <<>>

\* the item of the caller's frame that made the nested call
CallItem(c) ==
  IF c.pc = "deps" THEN [phase |-> "deps", ignore_errors |-> None]
  ELSE [phase |-> "cmds", ignore_errors |-> catalog[c.task].commands[c.i].ignore_errors]

\* the ignore_errors of the context the task of frame k was handed, derived
\* from the declarations along the chain of invokers: nothing for the top-level
\* task; for a dependency the invoker's own override, else what the invoker
\* was handed; for the target of a TaskRun the TaskRun's override, else the
\* invoker's value, else false
RECURSIVE HandedIgnoreErrors(_)
HandedIgnoreErrors(k) ==
  IF k = 1 THEN None
  ELSE LET c == frames[k - 1]
           scope == OptOr(catalog[c.task].ignore_errors, HandedIgnoreErrors(k - 1))
       IN IF CallItem(c).phase = "deps" THEN scope
          ELSE Some(UnwrapOr(OptOr(CallItem(c).ignore_errors, scope), FALSE))

\* the effective ignore_errors of a command of the running task: its own
\* override, else the task's override, else what the task was handed, else false
InheritedIgnoreErrors(command) ==
  UnwrapOr(OptOr(command.ignore_errors,
                 OptOr(catalog[Top.task].ignore_errors, HandedIgnoreErrors(Len(frames)))),
           FALSE)

\* the process of a LocalRun command of the running task has just exited non-zero
LocalRunJustFailed ==
  /\ log # <<>>
  /\ frames # <<>>
  /\ LET e == log[Len(log)]
     IN /\ e.ev = "exit" /\ e.phase = "cmd" /\ e.code # 0
        /\ e.task = Top.task
        /\ catalog[e.task].commands[e.idx].kind = "LocalRun"

\* C7 as stated: a LocalRun whose process exits non-zero succeeds exactly when
\* its own ignore_errors, else the enclosing task's, else false, is true.
C7_LocalRunFollowsDeclaredIgnoreErrors ==
  LocalRunJustFailed =>
    LET e == log[Len(log)]
    IN e.kind = "Ok" <=>
         DeclaredIgnoreErrors(catalog[e.task].commands[e.idx], catalog[e.task])

\* C7, amended: a LocalRun whose process exits non-zero succeeds exactly when
\* its own ignore_errors, else the enclosing task's, else the value the task
\* inherited from its invoker, else false, is true; otherwise it fails with
\* 'Command failed', which ends a sequential task at once.
C7_LocalRunFollowsInheritedIgnoreErrors ==
  LocalRunJustFailed =>
    LET e == log[Len(log)]
        effective == InheritedIgnoreErrors(catalog[e.task].commands[e.idx])
    IN /\ e.kind = "Ok" <=> effective
       /\ e.kind = "CommandFailed" <=> ~effective
       /\ (~effective /\ ~Parallel(catalog[e.task])) =>
            Top.pc = "ret" /\ Top.res = Err("CommandFailed", e.task)

\* C7 witness: a command without an override, in a nested task without an
\* override, exited non-zero and succeeded on the inherited value
C7_Witness ==
  /\ LocalRunJustFailed
  /\ Len(frames) > 1
  /\ catalog[Top.task].ignore_errors = None
  /\ catalog[Top.task].commands[log[Len(log)].idx].ignore_errors = None
  /\ log[Len(log)].kind = "Ok"

\* the errors that no ignore_errors setting suppresses
HardErrors ==
  {"PreconditionFailed", "TaskNotFound", "CircularDependency",
   "InteractiveInParallel", "ParallelUnsupported"}

\* C8: a failed precondition, a missing task, a circular dependency and a
\* parallel-validation error propagate unchanged whatever ignore_errors says:
\* once a task returned with one, its caller returns with it, nothing else
\* runs, and the invocation ends with it.
C8_HardErrorsPropagate ==
  \A j \in DOMAIN log :
    (log[j].ev = "return" /\ log[j].kind \in HardErrors) =>
      /\ \A k \in (j + 1)..Len(log) :
           log[k].ev = "return" /\ log[k].kind = log[j].kind
      /\ frames # <<>> => Top.pc = "ret" /\ Top.res.kind = log[j].kind
      /\ cli.pc = "done" => cli.result.kind = log[j].kind
      /\ par = NoPar

\* C8 witness: with ignore_errors true on the task and on the TaskRun, the
\* circular dependency found two levels down ended the invocation
C8_Witness ==
  /\ cli.pc = "done"
  /\ cli.task = "A"
  /\ cli.result = Err("CircularDependency", "A")
  /\ catalog["A"].ignore_errors = Some(TRUE)
  /\ \E c \in DOMAIN catalog["A"].commands :
       /\ catalog["A"].commands[c].kind = "TaskRun"
       /\ catalog["A"].commands[c].ignore_errors = Some(TRUE)
  /\ Len(log) > 2

\* command i of T has ended at this event
CmdEnd(e, T) ==
  \/ /\ e.ev = "exit" /\ e.task = T
     /\ e.phase = "cmd" \/ (e.phase = "test" /\ e.kind = "Skipped")
  \/ e.ev = "return" /\ e.by = T /\ e.phase = "cmd"

\* a command ended without an error
EndedWell(e) == e.kind \in {"Ok", "Skipped"}

\* C9: the commands of a non-parallel task run one at a time in declaration
\* order, each after the previous one ended without error; the first one that
\* fails ends the task with its error and no later command starts.
C9_SequentialCommands ==
  \A k \in DOMAIN log :
    LET e == log[k]
        T == Owner(e)
    IN /\ (CmdStart(e) /\ ~Parallel(catalog[T])) =>
            /\ \A j \in 1..(k - 1) :
                 (CmdStart(log[j]) /\ Owner(log[j]) = T) => log[j].idx <= e.idx
            /\ \A i \in 1..(e.idx - 1) :
                 \E j \in 1..(k - 1) :
                   CmdEnd(log[j], T) /\ log[j].idx = i /\ EndedWell(log[j])
       /\ \A U \in DOMAIN catalog :
            (CmdEnd(e, U) /\ ~EndedWell(e) /\ ~Parallel(catalog[U])) =>
              /\ \A j \in (k + 1)..Len(log) :
                   /\ ~(CmdStart(log[j]) /\ Owner(log[j]) = U)
                   /\ (log[j].ev = "return" /\ log[j].task = U) => log[j].kind = e.kind
              /\ \A f \in FramesOf(U) :
                   frames[f].pc = "ret" /\ frames[f].res.kind = e.kind

\* C9 witness: the first of two commands of a sequential task failed and the
\* task returned that failure
C9_Witness ==
  \E j, k \in DOMAIN log :
    /\ j < k
    /\ log[j].ev = "exit" /\ log[j].phase = "cmd" /\ log[j].idx = 1
    /\ log[j].kind = "CommandFailed"
    /\ ~Parallel(catalog[log[j].task])
    /\ Len(catalog[log[j].task].commands) > 1
    /\ log[k].ev = "return" /\ log[k].task = log[j].task
    /\ log[k].kind = "CommandFailed"

\* Task::run of n has returned
Finished(n) == \E k \in DOMAIN log : log[k].ev = "return" /\ log[k].task = n

\* the running task is about to resolve a dependency or a TaskRun target
Referencing ==
  /\ frames # <<>>
  /\ \/ Top.pc = "deps"
     \/ Top.pc = "cmds" /\ catalog[Top.task].commands[Top.i].kind = "TaskRun"

\* the name being resolved
Target ==
  IF Top.pc = "deps" THEN catalog[Top.task].depends_on[Top.i]
  ELSE catalog[Top.task].commands[Top.i].task

\* C10: during an invocation names are only added to the ExecutionStack (it
\* is emptied only when the invocation ends), so a reference to a task that
\* has already run to completion fails with a circular-dependency error.
C10_StackOnlyGrows ==
  [][/\ (cli.pc = "running" /\ cli'.pc = "running") =>
          execution_stack \subseteq execution_stack'
     /\ ~(execution_stack \subseteq execution_stack') =>
          execution_stack' = {} /\ cli'.pc = "done"
     /\ (Referencing /\ Finished(Target) /\ cli.pc = "running") =>
          /\ Target \in execution_stack
          /\ frames' = SetTop(Finish(Top, Err("CircularDependency", Target)))]_vars

\* C10 witness: in an acyclic diamond the second reference to D, after D had
\* returned successfully, ended the invocation with a circular dependency
C10_Witness ==
  /\ cli.pc = "done"
  /\ cli.task = "A"
  /\ cli.result = Err("CircularDependency", "D")
  /\ ~HasCycle(catalog, "A")
  /\ \E k \in DOMAIN log :
       log[k].ev = "return" /\ log[k].task = "D" /\ log[k].kind = "Ok"

\* C11 as stated: once run_task has returned, with success or with a failure,
\* the shared ExecutionStack is empty, so the next invocation on the same
\* stack starts from the empty set.
C11_StackEmptyAfterRunTask ==
  cli.pc = "done" => execution_stack = {}

\* thread t has passed the membership check without an error
Entered(t) == threads[t].pc \in {"insert", "unlock", "run", "started"}

\* thread t has left the lock-scoped block, or never came to it
Settled(t) == threads[t].pc \in {"done", "run", "started"}

\* the threads that resolve name n
Resolving(n) == {t \in DOMAIN threads : threads[t].name = n}

\* the stack as it was before any thread inserted a name
InitialStack ==
  execution_stack \ {threads[t].name : t \in {u \in DOMAIN threads :
                                                threads[u].pc \in {"unlock", "run", "started"}}}

\* C12: the membership check and the insert happen under one lock
\* acquisition: of the threads that enter the same name at most one passes
\* the check, and once all of them are through exactly one has succeeded and
\* every other one got the circular-dependency error (all of them, if the
\* name was in the stack from the start).
C12_EnterIsAtomic ==
  /\ \A t \in DOMAIN threads :
       threads[t].pc \in {"contains", "insert", "unlock"} => mutex = t
  /\ \A n \in DOMAIN catalog :
       LET entered == {t \in Resolving(n) : Entered(t)}
       IN /\ Cardinality(entered) <= 1
          /\ (Resolving(n) # {} /\ \A t \in Resolving(n) : Settled(t)) =>
               /\ Cardinality(entered) = IF n \in InitialStack THEN 0 ELSE 1
               /\ \A t \in Resolving(n) \ entered :
                    /\ threads[t].pc = "done"
                    /\ threads[t].result = Err("CircularDependency", n)

\* C12 witness: two threads entered the same name; one started the target,
\* the other got the circular-dependency error
C12_Witness ==
  \E t, u \in DOMAIN threads :
    /\ t # u
    /\ threads[t].name = threads[u].name
    /\ threads[t].pc = "started"
    /\ threads[u].pc = "done"
    /\ threads[u].result = Err("CircularDependency", threads[u].name)
    /\ threads[u].name \notin InitialStack

\* the event is the exit of the test of command e.idx of task e.task
TestExit(e) == e.ev = "exit" /\ e.phase = "test"

\* the command contributed no failure to its task
NoFailureFrom(T, c) ==
  /\ \A f \in FramesOf(T) :
       /\ frames[f].pc = "ret" => Message(c, FALSE) \notin {frames[f].res.failed[j] : j \in DOMAIN frames[f].res.failed}
       /\ (frames[f].pc = "ret" /\ ~Parallel(catalog[T]) /\ frames[f].res.kind = "CommandFailed") =>
            frames[f].i # c
       /\ (f = Len(frames) /\ Parallel(catalog[T])) =>
            Message(c, FALSE) \notin {par.failures[j] : j \in DOMAIN par.failures}
  /\ (cli.pc = "done" /\ cli.task = T) =>
       Message(c, FALSE) \notin {cli.result.failed[j] : j \in DOMAIN cli.result.failed}

\* C13: a LocalRun whose test exits non-zero is skipped: its main command is
\* never spawned and it counts as a success whatever the ignore_errors
\* settings are; when the test exits zero the main command is spawned next
\* and its exit decides the result of the command.
C13_TestIsSoftGate ==
  \A k \in DOMAIN log :
    TestExit(log[k]) =>
      LET e == log[k]
      IN /\ e.code # 0 =>
              /\ e.kind = "Skipped"
              /\ \A j \in DOMAIN log :
                   ~(log[j].ev = "spawn" /\ log[j].task = e.task
                       /\ log[j].phase = "cmd" /\ log[j].idx = e.idx)
              /\ NoFailureFrom(e.task, e.idx)
         /\ e.code = 0 =>
              /\ e.kind = "Ok"
              /\ k < Len(log)
              /\ log[k + 1] = Spawn(e.task, "cmd", e.idx)
              /\ \A j \in DOMAIN log :
                   (log[j].ev = "exit" /\ log[j].task = e.task
                      /\ log[j].phase = "cmd" /\ log[j].idx = e.idx) =>
                     /\ log[j].code = 0 => log[j].kind = "Ok"
                     /\ log[j].code # 0 => log[j].kind \in {"Ok", "CommandFailed"}
                     /\ (j = Len(log) /\ LocalRunJustFailed) =>
                          (log[j].kind = "Ok" <=>
                             InheritedIgnoreErrors(catalog[e.task].commands[e.idx]))

\* C13 witness: with ignore_errors false on the command, its test exited
\* non-zero, the next command ran and the task succeeded
C13_Witness ==
  /\ cli.pc = "done"
  /\ cli.task = "T"
  /\ cli.result = Ok
  /\ catalog["T"].commands[1].ignore_errors = Some(FALSE)
  /\ \E k \in DOMAIN log : TestExit(log[k]) /\ log[k].idx = 1 /\ log[k].code # 0
  /\ \E k \in DOMAIN log : log[k] = Spawn("T", "cmd", 2)

\* the keys the catalogs can bring into an environment
EnvKeys == {<<"F">>, <<"G">>, <<"H">>, <<"K">>, <<"#">>, <<>>}

\* the value a context holds for a key, if any
Lookup(env, key) == IF key \in DOMAIN env THEN Some(env[key]) ELSE None

\* the line is of the form key=value for this key
Defines(line, key) ==
  SplitAt(line) # 0 /\ Trim(SubSeq(line, 1, SplitAt(line) - 1)) = key

\* the value the env files of the task give the key: that of the last line,
\* in the last file, that defines it
FileValue(task, key) ==
  LET lines == UNION {{<<f, l>> : l \in DOMAIN task.env_file[f].lines} :
                        f \in DOMAIN task.env_file}
      defs == {p \in lines : Defines(task.env_file[p[1]].lines[p[2]], key)}
  IN IF defs = {} THEN None
     ELSE LET last == CHOOSE p \in defs :
                        \A q \in defs : q[1] < p[1] \/ (q[1] = p[1] /\ q[2] <= p[2])
              line == task.env_file[last[1]].lines[last[2]]
          IN Some(Trim(SubSeq(line, SplitAt(line) + 1, Len(line))))

\* the value the task's inline environment gives the key
InlineValue(task, key) ==
  LET decl == {j \in DOMAIN task.environment : task.environment[j].key = key}
  IN IF decl = {} THEN None
     ELSE LET value == task.environment[CHOOSE j \in decl : TRUE].value
          IN Some(IF is_shell_command(value) THEN Stdout ELSE value)

\* the value the task of frame k is to observe for the key: the env files',
\* else the inline one, else what the invoker observes
RECURSIVE ExpectedEnv(_, _)
ExpectedEnv(k, key) ==
  LET task == catalog[frames[k].task]
  IN OptOr(FileValue(task, key),
           OptOr(InlineValue(task, key),
                 IF k = 1 THEN None ELSE ExpectedEnv(k - 1, key)))

\* the task of the frame has resolved its environment and is running its
\* dependencies, preconditions or commands
EnvResolved(f) == f.pc \in {"deps", "pre", "cmds", "par", "recv"}

\* C14: once a task has resolved its environment, the value its preconditions
\* and commands get for a key is the env files' (last file, last line), else
\* the inline environment's, else the one inherited from the invoker.
C14_EnvPrecedence ==
  \A k \in DOMAIN frames :
    EnvResolved(frames[k]) =>
      /\ DOMAIN frames[k].context.env_vars \subseteq EnvKeys
      /\ \A key \in EnvKeys :
           Lookup(frames[k].context.env_vars, key) = ExpectedEnv(k, key)

\* C14 witness: a command of B, run as a dependency of A, observes F from the
\* last defining line of the env files although B declares F inline and A
\* hands down another F, and observes G trimmed from the file
C14_Witness ==
  /\ Len(frames) = 2
  /\ Top.task = "B"
  /\ Top.pc = "cmds"
  /\ Top.running
  /\ catalog["B"].env_file = <<EnvFileTwo, EnvFileOne>>
  /\ InlineValue(catalog["B"], <<"F">>) = Some(<<"b">>)
  /\ Lookup(frames[1].context.env_vars, <<"F">>) = Some(<<"a">>)
  /\ Lookup(Top.context.env_vars, <<"F">>) = Some(<<"x">>)
  /\ Lookup(Top.context.env_vars, <<"G">>) = Some(<<"y">>)
  /\ Lookup(Top.context.env_vars, <<"K">>) = Some(<<"a", "=", "b">>)

\* C15: a task that calls another one (a depends_on entry or a TaskRun) has
\* the same env_vars, shell, ignore_errors and verbose when the call returns,
\* with success or with a failure, as when it made the call; the called task
\* starts from the caller's environment and shell, and what it adds stays in
\* its own context.
C15_CallerContextUnchanged ==
  [][/\ cli'.pc # "panicked" =>
          \A k \in 1..(Len(frames) - 1) :
            /\ k \in DOMAIN frames'
            /\ frames'[k].context = frames[k].context
     /\ Len(frames') > Len(frames) /\ frames # <<>> =>
          /\ frames'[Len(frames)].context = frames[Len(frames)].context
          /\ frames'[Len(frames')].context.env_vars = frames[Len(frames)].context.env_vars
          /\ frames'[Len(frames')].context.shell = frames[Len(frames)].context.shell]_vars

\* C15 witness: B, a dependency of A, resolved F and G from its env file and
\* returned; A goes on with its own F, G and shell
C15_Witness ==
  /\ Len(frames) = 1
  /\ Top.task = "A"
  /\ Top.pc = "pre"
  /\ catalog["B"].env_file = <<EnvFileOne>>
  /\ \E k \in DOMAIN log : log[k].ev = "return" /\ log[k].task = "B"
  /\ Lookup(Top.context.env_vars, <<"F">>) = Some(<<"a">>)
  /\ Lookup(Top.context.env_vars, <<"G">>) = Some(<<"g">>)
  /\ Top.context.shell = Some("bash")

\* C16: resolving a depends_on entry or a TaskRun whose name is absent from
\* the catalog gives 'Task not found', and one whose name is already in the
\* ExecutionStack gives the circular-dependency error; in both cases the step
\* only returns the error: no task is begun, no process is spawned and the
\* ExecutionStack is what it was.
C16_FailedResolveHasNoEffect ==
  [][(Referencing /\ cli.pc = "running"
        /\ (Target \notin DOMAIN catalog \/ Target \in execution_stack)) =>
       /\ frames' = SetTop(Finish(Top, Err(IF Target \notin DOMAIN catalog
                                           THEN "TaskNotFound"
                                           ELSE "CircularDependency", Target)))
       /\ execution_stack' = execution_stack
       /\ log' = log
       /\ par' = par]_vars

\* C16 witness: B's TaskRun of the absent X ended the invocation with 'Task
\* not found', the stack holding B only
C16_Witness ==
  /\ cli.pc = "done"
  /\ cli.task = "B"
  /\ cli.result = Err("TaskNotFound", "X")
  /\ "X" \notin DOMAIN catalog
  /\ execution_stack = {"B"}
  /\ \A k \in DOMAIN log : log[k].ev = "begin" => log[k].task = "B"

\* a depends_on entry of the task of frame f has failed in this step: the
\* nested task returned an error, or the entry could not be resolved
DependencyFails(f) ==
  /\ f \in DOMAIN frames
  /\ frames[f].pc = "deps"
  /\ \/ Len(frames) = f + 1 /\ Len(frames') = f /\ Top.pc = "ret" /\ Top.res.kind # "Ok"
     \/ Len(frames) = f /\ Len(frames') = f /\ frames'[f].pc = "ret"

\* the error of that entry
DependencyError(f) == IF Len(frames) = f + 1 THEN Top.res ELSE frames'[f].res

\* C17: when a depends_on entry of a task fails, Task.run of that task
\* returns the entry's error as it is, whatever the task's ignore_errors, and
\* the task starts nothing after it: no later dependency, no precondition, no
\* command.
C17_DependencyFailureAborts ==
  /\ [](\A k \in DOMAIN log :
          (log[k].ev = "return" /\ log[k].phase = "deps" /\ log[k].kind # "Ok") =>
            /\ \A j \in (k + 1)..Len(log) : Owner(log[j]) # log[k].by
            /\ \A j \in (k + 1)..Len(log) :
                 (log[j].ev = "return" /\ log[j].task = log[k].by) =>
                   log[j].kind = log[k].kind
            /\ \A f \in FramesOf(log[k].by) :
                 frames[f].pc = "ret" /\ frames[f].res.kind = log[k].kind)
  /\ [][\A f \in DOMAIN frames :
          DependencyFails(f) =>
            /\ DependencyError(f).kind # "Ok"
            /\ frames'[f] = Finish(frames[f], DependencyError(f))]_vars

\* C17 witness: A has ignore_errors true; its first dependency B failed, and
\* A returned B's error without beginning C or spawning anything of its own
C17_Witness ==
  /\ cli.pc = "done"
  /\ cli.task = "A"
  /\ cli.result = Err("CommandFailed", "B")
  /\ catalog["A"].ignore_errors = Some(TRUE)
  /\ catalog["A"].depends_on = <<"B", "C">>
  /\ \A k \in DOMAIN log : log[k].task # "C" /\ Owner(log[k]) \in {"", "A", "B"}
  /\ \A k \in DOMAIN log : log[k].ev = "spawn" => log[k].task = "B"

\* frame k was entered through a TaskRun command of the frame below it
EnteredByTaskRun(k) ==
  /\ k \in DOMAIN frames
  /\ k > 1
  /\ frames[k - 1].pc = "cmds"
  /\ catalog[frames[k - 1].task].commands[frames[k - 1].i].kind = "TaskRun"

\* the first of the declared values, or the default
FirstSet(values, default) ==
  LET set == SelectSeq(values, LAMBDA o : o # None)
  IN IF set = <<>> THEN default ELSE set[1][1]

\* the TaskRun's own ignore_errors, else the invoking context's, else false
NestedIgnoreErrors(k) ==
  FirstSet(<<catalog[frames[k - 1].task].commands[frames[k - 1].i].ignore_errors,
             frames[k - 1].context.ignore_errors>>, FALSE)

\* the TaskRun's own verbose, else the invoking context's, else true
NestedVerbose(k) ==
  FirstSet(<<catalog[frames[k - 1].task].commands[frames[k - 1].i].verbose,
             frames[k - 1].context.verbose>>, TRUE)

\* the ignore_errors the current command of frame k acts on
UsedIgnoreErrors(k) ==
  LET command == catalog[frames[k].task].commands[frames[k].i]
  IN IF command.kind = "TaskRun" THEN TaskRunIgnoreErrors(command, frames[k].context)
     ELSE Suppressed(command, frames[k].context)

\* the verbose the current command of frame k acts on
UsedVerbose(k) ==
  LET command == catalog[frames[k].task].commands[frames[k].i]
  IN IF command.kind = "TaskRun" THEN TaskRunVerbose(command, frames[k].context)
     ELSE Verbose(command, frames[k].context)

\* the target of a TaskRun is handed the TaskRun's values, and its current
\* command, when it is one of `kinds`, acts on the command's, else the
\* target's, else the TaskRun's values
NestedValuesUsed(kinds) ==
  \A k \in DOMAIN frames :
    EnteredByTaskRun(k) =>
      LET task == catalog[frames[k].task]
      IN /\ frames[k].context.is_nested
         /\ frames[k].pc = "validate" =>
              /\ frames[k].context.ignore_errors = Some(NestedIgnoreErrors(k))
              /\ frames[k].context.verbose = Some(NestedVerbose(k))
         /\ (frames[k].pc = "cmds" /\ task.commands[frames[k].i].kind \in kinds) =>
              LET command == task.commands[frames[k].i]
              IN /\ UsedIgnoreErrors(k) =
                      FirstSet(<<command.ignore_errors, task.ignore_errors>>,
                               NestedIgnoreErrors(k))
                 /\ UsedVerbose(k) =
                      FirstSet(<<command.verbose, task.verbose>>, NestedVerbose(k))

\* what holds of the commands that read the context: LocalRun, TaskRun, raw
\* commands and ContainerRun with its serde defaults as its own values
LocalKinds == {"LocalRun", "TaskRun", "CommandRun", "ContainerRun"}

NestedValuesUsedByLocalKinds == NestedValuesUsed(LocalKinds)

\* C18: a TaskRun runs its target in a nested context whose ignore_errors
\* and verbose are the TaskRun's own values when set, else the invoking
\* context's, else false and true; a command of the target acts on its own
\* override, else the target's, else these values.
C18_TaskRunNestedValues ==
  NestedValuesUsed(LocalKinds \cup {"ContainerBuild"})

\* the messages of the commands of parallel task T whose worker reported a
\* failure, whatever the order the reports arrived in
FailureMessages(T) ==
  {Message(log[j].idx, FALSE) :
     j \in {n \in DOMAIN log : /\ log[n].ev = "exit" /\ log[n].task = T
                               /\ log[n].phase = "cmd" /\ log[n].kind # "Ok"}}

\* `failed` lists exactly the messages of `messages`, each once, in ascending
\* lexicographic order
AscendingListOf(failed, messages) ==
  /\ {failed[j] : j \in DOMAIN failed} = messages
  /\ \A a, b \in DOMAIN failed : a < b => LexLess(failed[a], failed[b])

InteractiveRunning ==
  \E k \in DOMAIN frames :
    /\ frames[k].pc = "cmds"
    /\ frames[k].running
    /\ catalog[frames[k].task].commands[frames[k].i].kind = "LocalRun"
    /\ Interactive(catalog[frames[k].task].commands[frames[k].i])

\* C20: progress rendering is suspended exactly while an interactive LocalRun
\* is running: it is hidden when the interactive process is spawned and shown
\* again once the process has exited, so whatever runs after an interactive
\* command sees rendering enabled.
C20_RenderingSuspendedWhileInteractive ==
  draw_target = "hidden" <=> InteractiveRunning

\* the container process of a command of the running task has just exited
\* non-zero
ContainerJustFailed ==
  /\ log # <<>>
  /\ frames # <<>>
  /\ LET e == log[Len(log)]
     IN /\ e.ev = "exit" /\ e.phase = "cmd" /\ e.code # 0
        /\ e.task = Top.task
        /\ catalog[e.task].commands[e.idx].kind \in {"ContainerRun", "ContainerBuild"}

\* C21: a ContainerRun or ContainerBuild whose container runtime exits
\* non-zero succeeds exactly when its effective ignore_errors is true: its own
\* override if set, else the enclosing task's override, else false.
C21_ContainerFollowsDeclaredIgnoreErrors ==
  ContainerJustFailed =>
    LET e == log[Len(log)]
    IN e.kind = "Ok" <=>
         DeclaredIgnoreErrors(catalog[e.task].commands[e.idx], catalog[e.task])

\* the LocalRun a raw command string is sugar for: non-interactive, nothing
\* declared
AsLocalRun(command) == IF command.kind = "CommandRun" THEN Plain ELSE command

\* the task with every raw command string written as that LocalRun
WithLocalRuns(task) ==
  [task EXCEPT !.commands = [c \in DOMAIN task.commands |-> AsLocalRun(task.commands[c])]]

\* a raw command that is being run gives, for every exit code, the result and
\* the verbosity of the LocalRun it stands for
RunsAsLocalRun ==
  \A k \in DOMAIN frames :
    LET task == catalog[frames[k].task]
    IN (frames[k].pc = "cmds" /\ task.commands[frames[k].i].kind = "CommandRun") =>
         LET command == task.commands[frames[k].i]
         IN /\ \A code \in ExitCodes :
                 CommandResult(command, frames[k].context, code, frames[k].task) =
                   CommandResult(AsLocalRun(command), frames[k].context, code,
                                 frames[k].task)
            /\ Verbose(command, frames[k].context) =
                 Verbose(AsLocalRun(command), frames[k].context)

\* C22: a raw command string behaves in every respect as a non-interactive
\* LocalRun with no overrides, task-level parallel validation included: a
\* task is accepted or rejected by validation exactly as the task with its raw
\* commands written as LocalRuns is, and a raw command gives the result of
\* that LocalRun.
C22_CommandRunIsLocalRun ==
  /\ RunsAsLocalRun
  /\ \A k \in DOMAIN frames :
       frames[k].pc # "validate" =>
         validate_parallel_commands(catalog[frames[k].task], frames[k].task) =
           validate_parallel_commands(WithLocalRuns(catalog[frames[k].task]),
                                      frames[k].task)

\* a ContainerRun or ContainerBuild command
IsContainer(command) == command.kind \in {"ContainerRun", "ContainerBuild"}

\* the running task is about to execute a container command
AtContainerCommand ==
  /\ frames # <<>>
  /\ Top.pc = "cmds"
  /\ ~Top.running
  /\ IsContainer(catalog[Top.task].commands[Top.i])

\* C23: when neither docker nor podman is on the search path, a ContainerRun
\* or ContainerBuild fails with the runtime-not-found error and spawns
\* nothing: no container process, and no shell process for a tag or label
\* substitution.
C23_NoRuntimeNoSpawn ==
  /\ [](path \cap Runtimes = {} =>
          /\ \A k \in DOMAIN log :
               (log[k].ev = "spawn" /\ log[k].phase \in {"cmd", "tag"}) =>
                 ~IsContainer(catalog[log[k].task].commands[log[k].idx])
          /\ \A k \in DOMAIN frames :
               frames[k].pc = "cmds" =>
                 /\ ~(frames[k].running
                        /\ IsContainer(catalog[frames[k].task].commands[frames[k].i]))
                 /\ \A j \in 1..(frames[k].i - 1) :
                      ~IsContainer(catalog[frames[k].task].commands[j]))
  /\ [][(AtContainerCommand /\ path \cap Runtimes = {}) =>
          /\ frames' = SetTop(Finish(Top, Err("RuntimeNotFound", Top.task)))
          /\ log' = log]_vars

\* C23 witness: T's build declares a tag that is a shell substitution; with
\* an empty search path T ended with the runtime-not-found error and nothing
\* was spawned
C23_Witness ==
  /\ cli.pc = "done"
  /\ cli.task = "T"
  /\ cli.result = Err("RuntimeNotFound", "T")
  /\ catalog["T"].commands[1] = ContainerBuildTagged
  /\ path = {}
  /\ \A k \in DOMAIN log : log[k].ev # "spawn"

\* the running task is about to resolve an environment value of the form $(cmd)
AtSubstitution ==
  /\ frames # <<>>
  /\ Top.pc = "env"
  /\ is_shell_command(catalog[Top.task].environment[Top.i].value)

\* C24: a declared environment value of the form $(cmd) is resolved by
\* running cmd and binding the key to the first line of its output, whatever
\* the task's verbose and the inherited verbose are: the resolution fails only
\* when cmd prints no line, and the key is bound to the line it printed.
C24_SubstitutionIgnoresVerbose ==
  /\ [](\A k \in DOMAIN frames :
          EnvResolved(frames[k]) =>
            \A j \in DOMAIN catalog[frames[k].task].environment :
              LET e == catalog[frames[k].task].environment[j]
              IN (is_shell_command(e.value)
                    /\ FileValue(catalog[frames[k].task], e.key) = None) =>
                   Lookup(frames[k].context.env_vars, e.key) = Some(Stdout))
  /\ [][AtSubstitution =>
          (frames'[Len(frames)].pc = "ret" =>
             frames'[Len(frames)].res.kind = "StdoutEmpty")]_vars

\* how often the flag occurs in the argument list
Occurrences(args, flag) == Cardinality({k \in DOMAIN args : args[k] = flag})

\* the args the shell declares: none for a Shell::String or when absent
DeclaredArgs(shell_in) == UnwrapOr(shell_in.args, <<>>)

\* what holds for every declared args list: `-c` is there, after the declared
\* args when they do not hold it, and the declared args are kept
ProcHasDashC ==
  proc # None =>
    LET args == proc[1].args
    IN IF shell_def.command \in posix_shell
       THEN /\ Occurrences(args, "-c") >= 1
            /\ Occurrences(DeclaredArgs(shell_def), "-c") <= 1 =>
                 Occurrences(args, "-c") = 1
            /\ SubSeq(args, 1, Len(DeclaredArgs(shell_def))) = DeclaredArgs(shell_def)
       ELSE args = DeclaredArgs(shell_def)

\* C25: for sh, bash, zsh and fish and every declared args list (absent,
\* empty, holding `-c` at any position or several times) the built invocation
\* holds `-c` exactly once; for every other command the declared args are
\* returned unchanged.
C25_DashCExactlyOnce ==
  proc # None =>
    IF shell_def.command \in posix_shell
    THEN Occurrences(proc[1].args, "-c") = 1
    ELSE proc[1].args = DeclaredArgs(shell_def)

\* the call that has just been made on the context, if any
LastCall == IF log' = <<>> THEN Called("", "") ELSE log'[1]

\* the three getters agree before and after the step, except the named one
OtherGettersUnchanged(getter) ==
  /\ getter # "shell" => ContextShell(task_context') = ContextShell(task_context)
  /\ getter # "ignore_errors" =>
       ContextIgnoreErrors(task_context') = ContextIgnoreErrors(task_context)
  /\ getter # "verbose" => ContextVerbose(task_context') = ContextVerbose(task_context)
  /\ getter # "env_vars" => task_context'.env_vars = task_context.env_vars

\* C26: shell(), ignore_errors() and verbose() return the context's own
\* override when it is set and otherwise sh, false and true; after
\* set_shell(s), set_ignore_errors(b) or set_verbose(b) the matching getter
\* returns the value just set, and the other two getters and env_vars are
\* unchanged.
C26_ContextGettersAndSetters ==
  /\ [](/\ ContextShell(task_context) =
             (IF task_context.shell = None THEN ShellString("sh")
              ELSE task_context.shell[1])
        /\ ContextIgnoreErrors(task_context) =
             (IF task_context.ignore_errors = None THEN FALSE
              ELSE task_context.ignore_errors[1])
        /\ ContextVerbose(task_context) =
             (IF task_context.verbose = None THEN TRUE ELSE task_context.verbose[1]))
  /\ [][/\ LastCall.ev = "set_shell" =>
             ContextShell(task_context') = LastCall.arg /\ OtherGettersUnchanged("shell")
        /\ LastCall.ev = "set_ignore_errors" =>
             /\ ContextIgnoreErrors(task_context') = LastCall.arg
             /\ OtherGettersUnchanged("ignore_errors")
        /\ LastCall.ev = "set_verbose" =>
             ContextVerbose(task_context') = LastCall.arg /\ OtherGettersUnchanged("verbose")
       ]_vars

\* C26 witness: on a context with a shell and verbose false,
\* set_ignore_errors(true) was called; ignore_errors() is true and verbose()
\* still false
C26_Witness ==
  /\ log = <<Called("set_ignore_errors", TRUE)>>
  /\ ContextIgnoreErrors(task_context)
  /\ task_context.verbose = Some(FALSE)
  /\ ContextShell(task_context) = ShellString("bash")
  /\ task_context.env_vars # <<>>

\* C27: a top-level run_task with a name that is not in the catalog fails
\* with 'Task not found' and has done nothing else: nothing was inserted into
\* the ExecutionStack, no context was built (Task::run was not entered) and
\* no process was spawned.
C27_UnknownTopLevelTask ==
  (cli.pc # "idle" /\ cli.task \notin DOMAIN catalog) =>
    /\ cli.pc = "done"
    /\ cli.result = Err("TaskNotFound", cli.task)
    /\ execution_stack = {}
    /\ frames = <<>>
    /\ log = <<>>

\* C27 witness: run_task("X") on a catalog of A and B ended with 'Task not
\* found'
C27_Witness ==
  /\ cli.pc = "done"
  /\ cli.task = "X"
  /\ "X" \notin DOMAIN catalog
  /\ DOMAIN catalog = {"A", "B"}
  /\ cli.result.kind = "TaskNotFound"

\* frame k was entered through a depends_on entry of the frame below it
EnteredByDependency(k) ==
  /\ k \in DOMAIN frames
  /\ k > 1
  /\ frames[k - 1].pc = "deps"

\* the declared environment and the env files of a task, resolved
ResolvedEnvironment(task) == Extend(load_env(task), load_env_file(task, "").env)

\* the invoking frame has its task's overrides and environment in its context
OverridesInEffect(f) ==
  LET task == catalog[f.task]
      env == ResolvedEnvironment(task)
  IN /\ task.shell # None => f.context.shell = task.shell
     /\ task.ignore_errors # None => f.context.ignore_errors = task.ignore_errors
     /\ task.verbose # None => f.context.verbose = task.verbose
     /\ \A key \in DOMAIN env :
          key \in DOMAIN f.context.env_vars /\ f.context.env_vars[key] = env[key]

\* the ignore_errors the nested frame k was handed by the frame below it
InvokingIgnoreErrors(k) ==
  IF EnteredByTaskRun(k) THEN NestedIgnoreErrors(k)
  ELSE ContextIgnoreErrors(frames[k - 1].context)

\* the verbose the nested frame k was handed by the frame below it
InvokingVerbose(k) ==
  IF EnteredByTaskRun(k) THEN NestedVerbose(k)
  ELSE ContextVerbose(frames[k - 1].context)

\* every nested frame was called by a frame with its overrides in effect,
\* starts from a copy of that frame's context, and its current command, when
\* it is one of `kinds`, acts on the command's, else the nested task's, else
\* the invoking task's values
InvokingValuesUsed(kinds) ==
  \A k \in DOMAIN frames :
    (EnteredByDependency(k) \/ EnteredByTaskRun(k)) =>
      LET task == catalog[frames[k].task]
          caller == frames[k - 1]
      IN /\ OverridesInEffect(caller)
         /\ frames[k].pc = "validate" =>
              /\ frames[k].context.shell = caller.context.shell
              /\ frames[k].context.env_vars = caller.context.env_vars
              /\ ContextIgnoreErrors(frames[k].context) = InvokingIgnoreErrors(k)
              /\ ContextVerbose(frames[k].context) = InvokingVerbose(k)
         /\ frames[k].pc \in {"deps", "pre", "cmds"} =>
              /\ ContextShell(frames[k].context) =
                   UnwrapOr(task.shell, ContextShell(caller.context))
              /\ \A key \in DOMAIN caller.context.env_vars \ DOMAIN ResolvedEnvironment(task) :
                   /\ key \in DOMAIN frames[k].context.env_vars
                   /\ frames[k].context.env_vars[key] = caller.context.env_vars[key]
         /\ (frames[k].pc = "cmds" /\ task.commands[frames[k].i].kind \in kinds) =>
              LET command == task.commands[frames[k].i]
              IN /\ UsedIgnoreErrors(k) =
                      FirstSet(<<command.ignore_errors, task.ignore_errors>>,
                               InvokingIgnoreErrors(k))
                 /\ UsedVerbose(k) =
                      FirstSet(<<command.verbose, task.verbose>>, InvokingVerbose(k))

InvokingValuesUsedByLocalKinds == InvokingValuesUsed(LocalKinds)

\* C28: a task's shell, ignore_errors and verbose overrides and its resolved
\* environment are in its context before any dependency runs; every
\* depends_on target and TaskRun target starts from a copy of that context,
\* and a nested task or command without its own override uses the invoking
\* task's values, not the process defaults.
C28_NestedUsesInvokingValues ==
  InvokingValuesUsed(LocalKinds \cup {"ContainerBuild"})

\* what Task.run on a task without commands leaves behind, however it ends:
\* it ends in its first step, with the context, the ExecutionStack and the
\* log as they were when it was entered
EmptyTaskDoesNothing ==
  [][(frames # <<>> /\ catalog[Top.task].commands = <<>>) =>
       /\ Top.pc = "validate"
       /\ Top.context = IF Len(frames) = 1 THEN NewContext
                        ELSE FromContext(frames[Len(frames) - 1].context)
       /\ UNCHANGED <<execution_stack, log>>]_vars

\* C29: Task.run on a task whose command list is empty returns an error
\* result to its caller, before the context is modified, before any
\* ExecutionStack entry is made on behalf of its dependencies and before any
\* process is spawned; the process does not crash.
C29_EmptyCommandsRejected ==
  /\ cli.pc # "panicked"
  /\ \A k \in DOMAIN frames :
       catalog[frames[k].task].commands = <<>> =>
         \/ frames[k].pc = "validate" /\ frames[k].res = Ok
         \/ frames[k].pc = "ret" /\ frames[k].res.kind = "NoCommands"

\* the indices of the commands of parallel task T whose worker reported a
\* failure
FailureIndices(T) ==
  {log[j].idx : j \in {n \in DOMAIN log : /\ log[n].ev = "exit" /\ log[n].task = T
                                          /\ log[n].phase = "cmd" /\ log[n].kind # "Ok"}}

\* the n-th smallest member of a set of numbers
Nth(indices, n) == CHOOSE x \in indices : Cardinality({y \in indices : y < x}) = n - 1

\* `failed` lists the failure messages of the commands of `indices`, each
\* once, in ascending order of the command index
InIndexOrder(failed, indices) ==
  /\ Len(failed) = Cardinality(indices)
  /\ \A n \in DOMAIN failed : failed[n] = Message(Nth(indices, n), FALSE)

\* every index of the set is written with the same number of digits
SameWidth(indices) == \A x, y \in indices : Len(Decimal(x)) = Len(Decimal(y))

\* what holds of the aggregate message: the failures are in index order when
\* their command numbers have the same number of digits
IndexOrderWhenSameWidth ==
  (frames # <<>> /\ Top.pc = "ret" /\ Parallel(catalog[Top.task])
     /\ Top.res.kind = "FailedCommands" /\ SameWidth(FailureIndices(Top.task))) =>
    InIndexOrder(Top.res.failed, FailureIndices(Top.task))

\* C30: when a parallel task fails, the aggregate message lists the failed
\* commands in ascending order of their command index, for every number of
\* commands and every subset of failing commands.
C30_FailuresInIndexOrder ==
  (frames # <<>> /\ Top.pc = "ret" /\ Parallel(catalog[Top.task])
     /\ Top.res.kind = "FailedCommands") =>
    InIndexOrder(Top.res.failed, FailureIndices(Top.task))

\* the top-level invocation ended with the configuration error of some task
EndedWithConfigError ==
  /\ cli.pc = "done"
  /\ cli.result.kind \in ConfigErrors

\* the position in the log at which Task::run of task T was entered
BeginOf(T) == CHOOSE k \in DOMAIN log : log[k].ev = "begin" /\ log[k].task = T

\* C31 as stated: an invocation that ends with an invalid-parallel-
\* configuration error of a task reachable from the invoked task has spawned
\* no process at any earlier point.
C31_NoSpawnBeforeConfigError ==
  EndedWithConfigError => \A k \in DOMAIN log : log[k].ev # "spawn"

\* C31: an invocation that ends with the invalid-parallel-configuration error
\* of task T has spawned no process of T and no process at all since
\* Task::run of T was entered; every process it spawned belongs to a task
\* that ran before T was entered.
C31_NoSpawnSinceRejectedTaskBegan ==
  EndedWithConfigError =>
    LET T == cli.result.name
    IN /\ T \in DOMAIN catalog
       /\ \E k \in DOMAIN log : log[k].ev = "begin" /\ log[k].task = T
       /\ \A k \in DOMAIN log :
            (log[k].ev = "spawn" \/ (log[k].ev = "begin" /\ log[k].task # T)) =>
              k < BeginOf(T) /\ log[k].task # T

\* C31 witness: W spawned its precondition, then ran V, and the invocation
\* ended with V's configuration error
C31_Witness ==
  /\ EndedWithConfigError
  /\ cli.task = "W"
  /\ cli.result.name = "V"
  /\ \E k \in DOMAIN log : log[k].ev = "spawn" /\ log[k].task = "W" /\ log[k].phase = "pre"

\* the parent is blocked on the child: in cmd.wait(), or reading its stdout
ParentBlocks == child.pc \in {"wait", "read"}

\* C32 as stated: every spawned process whose output is captured, a shell
\* substitution included, has one reading thread per captured stream by the
\* time the parent blocks on it, so the parent never waits on a process that
\* is blocked writing to a full pipe.
C32_EveryCapturedStreamHasReader ==
  /\ ParentBlocks => \A s \in Streams : child.stdio[s] = "piped" => s \in child.readers
  /\ \A s \in Streams : (child.pc = "wait" /\ BlockedOn(s)) => s \in child.readers

\* C32: every process the parent waits for (main command, LocalRun test,
\* precondition, container command) has one reading thread per piped stream
\* by the time the parent is in cmd.wait(); a shell substitution has no
\* thread, the parent reads the first line of its stdout itself and never
\* waits for it; so the parent never waits on a process that is blocked
\* writing to a full pipe that nobody empties.
C32_WaitedProcessHasReaders ==
  /\ child.pc = "wait" =>
       \A s \in Streams : child.stdio[s] = "piped" => s \in child.readers
  /\ child.site = "substitution" => child.pc # "wait" /\ child.readers = {}
  /\ \A s \in Streams :
       (ParentBlocks /\ BlockedOn(s)) =>
         \/ s \in child.readers
         \/ child.pc = "read" /\ s = "stdout"

\* C32 witness: the parent waits for a verbose precondition that is blocked
\* writing to its full stderr pipe, which has a reader
C32_Witness ==
  /\ child.site = "Precondition"
  /\ child.pc = "wait"
  /\ BlockedOn("stderr")
  /\ "stderr" \in child.readers

\* every standard stream of the child is the parent's own
DirectToTerminal == \A s \in {"stdin", "stdout", "stderr"} : child.stdio[s] = "inherit"

\* what holds of a LocalRun's main command: an interactive command has the
\* parent's streams, a verbose non-interactive one is piped
LocalRunStreamsWhenShown ==
  (child # NoChild /\ child.site = "LocalRun") =>
    /\ child.interactive => DirectToTerminal
    /\ (~child.interactive /\ child.verbose) =>
         \A s \in Streams : child.stdio[s] = "piped"

\* C33: the standard streams of a LocalRun's main command are connected
\* directly to the terminal if and only if interactive is true; the output of
\* a non-interactive command is piped when the effective verbose is true and
\* discarded when it is false, as for a Precondition and a LocalRun test.
C33_LocalRunOutputPolicy ==
  (child # NoChild /\ child.site = "LocalRun") =>
    /\ DirectToTerminal <=> child.interactive
    /\ ~child.interactive =>
         /\ \A s \in Streams : child.stdio[s] = get_output_handler(child.verbose)
         /\ child.stdio = Stdio("Precondition", child.verbose, FALSE)
         /\ child.stdio = Stdio("test", child.verbose, FALSE)

\* every worker thread of the parallel phase has ended
WorkersEnded == \A k \in DOMAIN par.worker : par.worker[k] \in {"sent", "panicked"}

\* the orchestrator is in rx.recv() and nothing will ever be received
WaitsForMissingResult ==
  /\ frames # <<>>
  /\ Top.pc = "recv"
  /\ ~RecvLoopEnds(par, Len(catalog[Top.task].commands))
  /\ WorkersEnded
  /\ recv(par) = "blocked"

\* what holds when every worker has sent its result: the loop takes all of
\* them and the orchestrator returns
ReturnsWhenAllSent ==
  (frames # <<>> /\ Top.pc = "recv" /\ WorkersEnded
     /\ \A k \in DOMAIN par.worker : par.worker[k] = "sent") =>
    recv(par) = "Ok" \/ RecvLoopEnds(par, Len(catalog[Top.task].commands))

\* C34: the parallel orchestrator never blocks forever: once every worker
\* thread has ended it is never left waiting in rx.recv() for a result that
\* no worker will send; it returns, with an error when a result is missing.
C34_OrchestratorNeverBlocksForever == ~WaitsForMissingResult

\* the positions at which a thread is inside a block that holds the guard:
\* the membership check, the insert, and the final clear
GuardedPositions == {"contains", "insert", "unlock", "clear"}

\* C35: the ExecutionStack lock is held only for the membership check and
\* the insert, and for the final clear: a thread that runs a task (and with
\* it spawns and waits for processes) holds no guard, so a thread that locks
\* the mutex again for a nested dependency or TaskRun never waits for itself,
\* and whoever holds the guard is about to release it.
C35_LockHeldOnlyForCheckAndInsert ==
  /\ \A t \in DOMAIN threads :
       mutex = t <=> threads[t].pc \in GuardedPositions
  /\ \A t \in DOMAIN threads :
       threads[t].pc \in {"lookup", "lock", "run", "started", "done"} => mutex # t
  /\ \A t \in DOMAIN threads :
       (threads[t].pc = "lock" /\ ~Acquirable(mutex)) =>
         /\ mutex \in DOMAIN threads \ {t}
         /\ threads[mutex].pc \in GuardedPositions

\* C35 witness: a thread that has started a task and entered a nested name
\* holds the guard again for the membership check, while the other thread
\* waits for the lock
C35_Witness ==
  \E t, u \in DOMAIN threads :
    /\ t # u
    /\ log # <<>>
    /\ log[Len(log)].idx = t
    /\ log[Len(log)].task = threads[t].name
    /\ threads[t].pc = "contains"
    /\ mutex = t
    /\ log[Len(log)].by \in execution_stack
    /\ threads[u].pc = "lock"

\* the number of times Task::run of task T was entered
RunsOf(T) == Cardinality({k \in DOMAIN log : log[k].ev = "begin" /\ log[k].task = T})

\* what holds of every invocation: no task is run twice, and the recursion is
\* never deeper than the catalog has tasks
RunsAtMostOnce ==
  /\ \A T \in DOMAIN catalog : RunsOf(T) <= 1
  /\ Len(frames) <= Cardinality(DOMAIN catalog)
  /\ Cardinality({k \in DOMAIN log : log[k].ev = "begin"}) <= Cardinality(DOMAIN catalog)

\* C36: provided every spawned process exits, the top-level invocation
\* terminates; during it every task of the catalog is run at most once, so
\* the number of Task.run calls and the nesting depth of the recursion never
\* exceed the number of tasks in the catalog.
C36_InvocationTerminates ==
  /\ <>(cli.pc = "done")
  /\ []RunsAtMostOnce

\* the events the step appends to the log
Appended == {log'[k] : k \in DOMAIN log' \ DOMAIN log}

\* C37: while a top-level invocation runs, the ExecutionStack holds the
\* invoked task's name and the name of every task whose run was started
\* through a dependency or a TaskRun; the name of a task is in the stack
\* before the first process of the task is spawned; and the stack holds only
\* keys of the task catalog.
C37_StackHoldsEveryStartedTask ==
  /\ [](/\ execution_stack \subseteq DOMAIN catalog
        /\ cli.pc = "running" =>
             /\ cli.task \in execution_stack
             /\ \A k \in DOMAIN frames : frames[k].task \in execution_stack
             /\ \A k \in DOMAIN log :
                  log[k].ev = "begin" => log[k].task \in execution_stack)
  /\ [][Len(log') > Len(log) =>
          \A e \in Appended : e.ev = "spawn" => e.task \in execution_stack]_vars

\* C37 witness: A runs, its dependency B has been started and has spawned a
\* process, and both names are in the stack
C37_Witness ==
  /\ cli.pc = "running"
  /\ cli.task = "A"
  /\ Len(frames) = 2
  /\ frames[2].task = "B"
  /\ frames[1].pc = "deps"
  /\ execution_stack = {"A", "B"}
  /\ \E k \in DOMAIN log : log[k].ev = "spawn" /\ log[k].task = "B"

\* ---------------------------------------------------------------------
\* C38

\* the running task is in its parallel phase: threads are being spawned or
\* their results received
ParallelPhase == frames # <<>> /\ Top.pc \in {"par", "recv"}

\* every command a worker thread of the running task executes is a local
\* command that is not interactive
WorkersRunSafeLocalRuns ==
  \A k \in DOMAIN par.worker :
    LET command == catalog[Top.task].commands[k]
    IN /\ command.kind = "LocalRun"
       /\ ~Interactive(command)

\* a step leaves the stack, the number of frames and the context of every
\* frame as they were
StackAndContextsKept ==
  /\ execution_stack' = execution_stack
  /\ Len(frames') = Len(frames)
  /\ \A j \in DOMAIN frames : frames'[j].context = frames[j].context

\* C38: every command executed on a parallel worker thread is a
\* non-interactive LocalRun, and no step taken during a parallel phase starts
\* a nested task, changes the ExecutionStack or changes any context's
\* env_vars or overrides
C38_WorkersOnlyRunLocalCommands ==
  /\ [](ParallelPhase => WorkersRunSafeLocalRuns)
  /\ [][ParallelPhase => StackAndContextsKept]_vars

\* a parallel phase with one worker waiting on its process and one that has
\* sent its result
C38_Witness ==
  /\ ParallelPhase
  /\ Top.pc = "recv"
  /\ \E k \in DOMAIN par.worker : par.worker[k] = "running"
  /\ \E k \in DOMAIN par.worker : par.worker[k] = "sent"
  /\ \E j \in DOMAIN log : log[j].ev = "spawn" /\ log[j].task = Top.task /\ log[j].phase = "cmd"

====
